---- MODULE Spec2Model ----
(***************************************************************************)
(* Realtime subscription lifecycle of the chat/social client.              *)
(*                                                                         *)
(* Three of the repository's subscription managers are modelled, each as   *)
(* its own specification over a shared pool of realtime channels:          *)
(*   SpecRTS   useRealtimeSubscription with the global activeSubscriptions *)
(*             map (unnamed/part_000, first version)                       *)
(*   SpecCSM   ChatSubscriptionManager with the 1000 ms cleanup timer      *)
(*             (hooks/useSimpleChat.ts, first version)                     *)
(*   SpecUCSM  UnifiedChatSubscriptionManager (unnamed/part_002)           *)
(* The realtime client is external: a channel is a record whose state      *)
(* changes when the code calls unsubscribe() and when the client delivers  *)
(* a status string to the callback given to subscribe().                   *)
(***************************************************************************)
EXTENDS Integers, Sequences, FiniteSets, TLC

\* ------------------------------------------------------------------ bounds
MaxChannels == 2
MaxConsumers == 2
MaxTimers == 2
MaxSubscribers == 3
MaxUnifiedHooks == 3
MaxMessages == 2
MaxAdds == 101
MaxRecords == 4
MaxSends == 2
MaxInFlight == 2
MaxBeatsInFlight == 3
MaxFeedChannels == 1
MaxMutations == 3
MaxPlays == 3
MaxLookups == 1
\* Cleanup timers that lost their place in cleanupTimeout and still run.
MaxStaleCleanups == 0
MaxUpserts == 3
MaxPresenceTicks == 3
MaxBeatTicks == 30

\* program constants
CleanupDelay == 1000          \* ms, ChatSubscriptionManager.unsubscribe
ThrottleMs == 1000
CreateDelay == 100
InvalidateDelay == 300
Cleanup2Delay == 2000
TimeUnit == CreateDelay
\* the clock advances in steps of half the cleanup delay
TickMs == CleanupDelay \div 2

Hooks == {"h1", "h2"}
Keys == {"k1", "k2"}
Users == {"u1", "u2"}

NoKey == "null"
NoUser == "null"
NoChannel == 0

RtsModes == {"rts", "feed"}
CsmModes == {"csm", "pending"}

Statuses == {"SUBSCRIBED", "CLOSED", "CHANNEL_ERROR", "TIMED_OUT"}
ErrorStatuses == {"CLOSED", "CHANNEL_ERROR", "TIMED_OUT"}

VARIABLES
  chans,            \* every channel created so far: [key, owner, st, unsubs]
  \* useRealtimeSubscription (activeSubscriptions version)
  activeSubscriptions, \* key -> [channel, subscribers]; channel = 0: no entry
  subscriptionKeyRef,  \* hook -> key or "null"
  isSubscribedRef,     \* hook -> BOOLEAN
  hookEffect,          \* hook -> "unmounted" | "withUser" | "noUser"
  \* ChatSubscriptionManager (1000 ms cleanup timer); the fields of the singleton
  csm,              \* [channel, channelName, isActive, currentUserId,
                    \*  subscriberCount, cleanupTimeout, isSubscribing]
  timers,           \* pending setTimeout callbacks: [latest, stale], the ms
                    \* left of the timer cleanupTimeout names (-1: none) and
                    \* the number of overwritten timers per ms left
  topicIsName,      \* whether the client's channel.topic equals the given name
  csmHolders,       \* history: user -> consumers whose subscribe(user) returned
                    \* true and that have not called unsubscribe() yet
  csmRet,           \* history: what the subscribe() call that has just
                    \* returned did ("none" after any other step)
  csmRel,           \* history: the healthy channel left without a consumer by
                    \* the last unsubscribe(), and the ms left of its delay
  \* UnifiedChatSubscriptionManager; the fields of the singleton
  ucsm,             \* [channel, currentUserId, isActive, subscribers]
  ucHolders,        \* history: user -> hooks that called subscribe(user) and
                    \* have not run their cleanup (unsubscribe(user)) yet
  ucRet,            \* history: what the subscribe() call that has just
                    \* returned did ("none" after any other step)
  ucView,           \* one useUnifiedChat hook that is watched: the user its
                    \* effect ran for ("null": not mounted with a user) and
                    \* its isConnected state
  \* UnifiedNotificationService and the message handlers
  notifications,    \* the in-memory log, newest first: records [id, messageId, read]
  storage,          \* the array stored under 'unified_notifications'
  storageFull,      \* whether localStorage.setItem throws (quota exceeded)
  nextId,           \* history: number of records created so far, plus one
  inserted,         \* history: number of message rows inserted so far
  owed,             \* history: cache keys of events handled with a query client
                    \* set that have not been invalidated since
  debounceTimeout,  \* second ChatSubscriptionManager: the sender whose
                    \* invalidation the pending 300 ms timer holds, or "null"
  last,             \* history: what handling the last inserted message did
  unified,          \* useUnifiedChat hook -> [life, activeConversation,
                    \*  channelRef, isSubscribedRef, subscriptionIdRef,
                    \*  isConnected]; life: "unmounted", "mounted", "gone"
  convOf,           \* channel -> the activeConversation its handler captured
  \* useEnhancedUserPresence: clients writing the user_presence table and one
  \* observer's map of it
  clock,            \* seconds since the observer mounted
  presenceTable,    \* user -> whether the table holds a row for the user
  inflight,         \* change events of the table not yet delivered to the
                    \* observer, in the order the writes were made:
                    \* [kind, user, row, sent]
  userStatuses,     \* the observer's map: user -> row [status, last_seen]
  nextBeat,         \* the second at which the watched client's heartbeat fires
  presenceLog,      \* history: [sends, outOfOrder, late, arrived]
  lastChange,       \* the last run of a table feed's change handler
  pendingLookup,    \* the message whose sender lookup handleMessage awaits
  csm2,             \* ChatSubscriptionManager (second version) and its timers
  mutation,         \* the last mutation run and the toasts shown so far
  soundService,     \* EnhancedNotificationSoundService and its last play()
  soundEnabled,     \* UnifiedNotificationService.soundEnabled
  listeners,        \* UnifiedNotificationService.listeners, in insertion order
  lastCall,         \* history: the last call made on the service, the
                    \* listeners it called and whether it wrote the store
  lastSounds,       \* history: the sounds the last handled message played
  presenceHook,     \* one useEnhancedUserPresence hook, its upserts in flight
                    \* and the status of its row in user_presence
  impl              \* which manager this behaviour runs

vars == <<chans, activeSubscriptions, subscriptionKeyRef, isSubscribedRef,
          hookEffect, csm, timers, topicIsName, csmHolders, csmRet, csmRel,
          ucsm, ucHolders, ucRet, ucView, notifications, storage, storageFull,
          nextId, inserted, owed, debounceTimeout, last, unified, convOf,
          clock, presenceTable, inflight, userStatuses, nextBeat, presenceLog,
          lastChange, pendingLookup, csm2, mutation, soundService,
          soundEnabled, listeners, lastCall, lastSounds, presenceHook, impl>>

presenceVars == <<clock, presenceTable, inflight, userStatuses, nextBeat,
                  presenceLog>>

logVars == <<notifications, storage, storageFull, nextId>>

chatVars == <<logVars, inserted, owed, debounceTimeout, last, unified, convOf>>

csmVars == <<csm, timers, topicIsName, csmHolders, csmRet, csmRel>>

ucVars == <<ucsm, ucHolders, ucRet, ucView>>

rtsVars == <<activeSubscriptions, subscriptionKeyRef, isSubscribedRef, hookEffect>>

feedVars == <<lastChange, pendingLookup>>

csm2Vars == <<csm2>>

notifierVars == <<soundEnabled, listeners, lastCall, lastSounds>>

mutationVars == <<mutation, soundService>>

\* -------------------------------------------------- the realtime channels
\* supabase.channel(name) followed by .on(...).subscribe(callback): a new
\* channel, joining, whose callback belongs to `owner` and was built for `key`.
NewChannel(key, owner) ==
  [key |-> key, owner |-> owner, st |-> "joining", unsubs |-> 0]

\* supabase.channel(name) whose .on(...).subscribe(callback) threw: the channel
\* object exists but never joined, and no callback will be called.
UnjoinedChannel(key, owner) ==
  [key |-> key, owner |-> owner, st |-> "created", unsubs |-> 0]

\* A channel the client has closed: it delivers nothing more, and only the
\* number of unsubscribe() calls it received is kept.
Tombstone(n) == [key |-> NoKey, owner |-> "none", st |-> "closed", unsubs |-> n]

\* channel.unsubscribe() and supabase.removeChannel(channel): a live channel
\* starts closing (the client will report CLOSED to its callback once).
Unsubscribed(ch) ==
  IF ch.st \in {"closed", "created"} THEN Tombstone(ch.unsubs + 1)
  ELSE [ch EXCEPT !.st = "closing", !.unsubs = ch.unsubs + 1]

\* The statuses the client may deliver to a channel's callback in each state.
\* After CHANNEL_ERROR or TIMED_OUT the client retries the join, so the channel
\* is joining again.
Deliverable(st) ==
  CASE st = "joining" -> Statuses
    [] st = "joined"  -> ErrorStatuses
    [] st = "closing" -> {"CLOSED"}
    [] OTHER          -> {}

\* The channel after the client has reported status s to its callback.
AfterStatus(ch, s) ==
  CASE s = "SUBSCRIBED" -> [ch EXCEPT !.st = "joined"]
    [] s = "CLOSED"     -> Tombstone(ch.unsubs)
    [] OTHER            -> [ch EXCEPT !.st = "joining"]

ChannelIds == 1..Len(chans)

\* A channel that still holds (or is retrying) a network subscription.
IsOpen(c) == chans[c].st \in {"joining", "joined"}

OpenChannels(key) == {c \in ChannelIds : chans[c].key = key /\ IsOpen(c)}

Delivered(c, s) == [chans EXCEPT ![c] = AfterStatus(chans[c], s)]

\* --------------------------------- useRealtimeSubscription (global map)
NoEntry == [channel |-> NoChannel, subscribers |-> 0]

HasEntry(m, k) == m[k].channel # NoChannel

\* cleanup(): the state <<map, keyRef, subRef, chans>> after hook h's cleanup.
RTSCleanupResult(h, m, kr, sr, cs) ==
  IF kr[h] # NoKey /\ sr[h]
  THEN LET key == kr[h]
           left == m[key].subscribers - 1
           m2 == IF ~HasEntry(m, key) THEN m
                 ELSE IF left <= 0 THEN [m EXCEPT ![key] = NoEntry]
                 ELSE [m EXCEPT ![key].subscribers = left]
           cs2 == IF HasEntry(m, key) /\ left <= 0
                  THEN [cs EXCEPT ![m[key].channel] = Unsubscribed(cs[m[key].channel])]
                  ELSE cs
       IN  [map |-> m2, keyRef |-> [kr EXCEPT ![h] = NoKey],
            subRef |-> [sr EXCEPT ![h] = FALSE], chans |-> cs2]
  ELSE [map |-> m, keyRef |-> kr, subRef |-> sr, chans |-> cs]

\* An effect body without the reuse branch: it always creates a channel.
RTSEffectBodyNoReuse(h, key, r) ==
  [map |-> r.map, keyRef |-> [r.keyRef EXCEPT ![h] = key], subRef |-> r.subRef,
   chans |-> Append(r.chans, NewChannel(key, h))]

\* The effect body for a signed-in user and the key tableName_userId.
RTSEffectBody(h, key, r) ==
  LET kr == [r.keyRef EXCEPT ![h] = key]
  IN  IF HasEntry(r.map, key)
      THEN [map |-> [r.map EXCEPT ![key].subscribers = @ + 1], keyRef |-> kr,
            subRef |-> [r.subRef EXCEPT ![h] = TRUE], chans |-> r.chans]
      ELSE [map |-> r.map, keyRef |-> kr, subRef |-> r.subRef,
            chans |-> Append(r.chans, NewChannel(key, h))]

RTSNow == [map |-> activeSubscriptions, keyRef |-> subscriptionKeyRef,
           subRef |-> isSubscribedRef, chans |-> chans]

RTSSet(r) ==
  /\ activeSubscriptions' = r.map
  /\ subscriptionKeyRef' = r.keyRef
  /\ isSubscribedRef' = r.subRef
  /\ chans' = r.chans

\* The cleanup React runs before re-running the effect: the one the previous
\* run returned (a run without a user returned none).
RTSPrevCleanup(h) ==
  IF hookEffect[h] = "withUser"
  THEN RTSCleanupResult(h, activeSubscriptions, subscriptionKeyRef, isSubscribedRef, chans)
  ELSE RTSNow

\* Channels created in one behaviour.
ChannelBound == IF impl = "feed" THEN MaxFeedChannels ELSE MaxChannels

\* The effect runs (mount, or a dependency changed) with a signed-in user.
RTSEffect(h, key) ==
  /\ impl \in RtsModes
  /\ key \in Keys
  /\ LET r == RTSPrevCleanup(h)
     IN  /\ IF HasEntry(r.map, key)
            THEN r.map[key].subscribers < MaxConsumers
            ELSE Len(r.chans) < ChannelBound
         /\ RTSSet(RTSEffectBody(h, key, r))
  /\ hookEffect' = [hookEffect EXCEPT ![h] = "withUser"]
  /\ UNCHANGED <<csmVars, ucVars, impl, notifierVars, presenceHook, csm2Vars, feedVars, mutationVars, presenceVars, chatVars>>

\* The effect runs with no signed-in user: cleanup() and return.
RTSEffectNoUser(h) ==
  /\ impl \in RtsModes
  /\ hookEffect[h] # "noUser"
  /\ LET r == RTSPrevCleanup(h)
     IN  RTSSet(RTSCleanupResult(h, r.map, r.keyRef, r.subRef, r.chans))
  /\ hookEffect' = [hookEffect EXCEPT ![h] = "noUser"]
  /\ UNCHANGED <<csmVars, ucVars, impl, notifierVars, presenceHook, csm2Vars, feedVars, mutationVars, presenceVars, chatVars>>

\* The component unmounts: the effects' cleanups run.
RTSUnmount(h) ==
  /\ impl \in RtsModes
  /\ hookEffect[h] # "unmounted"
  /\ RTSSet(RTSCleanupResult(h, activeSubscriptions, subscriptionKeyRef,
                             isSubscribedRef, chans))
  /\ hookEffect' = [hookEffect EXCEPT ![h] = "unmounted"]
  /\ UNCHANGED <<csmVars, ucVars, impl, notifierVars, presenceHook, csm2Vars, feedVars, mutationVars, presenceVars, chatVars>>

\* The status callback of channel c, built by hook chans[c].owner's effect.
RTSStatusMap(c, s) ==
  LET key == chans[c].key
  IN  IF s = "SUBSCRIBED"
      THEN [activeSubscriptions EXCEPT ![key] = [channel |-> c, subscribers |-> 1]]
      ELSE IF s \in {"CLOSED", "CHANNEL_ERROR"}
      THEN [activeSubscriptions EXCEPT ![key] = NoEntry]
      ELSE activeSubscriptions

RTSStatusRef(c, s) ==
  IF s = "SUBSCRIBED" THEN [isSubscribedRef EXCEPT ![chans[c].owner] = TRUE]
  ELSE IF s \in {"CLOSED", "CHANNEL_ERROR"}
  THEN [isSubscribedRef EXCEPT ![chans[c].owner] = FALSE]
  ELSE isSubscribedRef

RTSStatus(c, s) ==
  /\ impl \in RtsModes
  /\ c \in ChannelIds
  /\ s \in Deliverable(chans[c].st)
  /\ chans' = Delivered(c, s)
  /\ activeSubscriptions' = RTSStatusMap(c, s)
  /\ isSubscribedRef' = RTSStatusRef(c, s)
  /\ UNCHANGED <<subscriptionKeyRef, hookEffect>>
  /\ UNCHANGED <<csmVars, ucVars, impl, notifierVars, presenceHook, csm2Vars, feedVars, mutationVars, presenceVars, chatVars>>

\* ------------------------------------ the change handler of a table feed
\* Names are sequences of characters: String.prototype.includes looks for a
\* run of characters.
Posts == <<"p", "o", "s", "t", "s">>
Comments == <<"c", "o", "m", "m", "e", "n", "t", "s">>
Reactions == <<"r", "e", "a", "c", "t", "i", "o", "n", "s">>
Messages == <<"m", "e", "s", "s", "a", "g", "e", "s">>
ConversationsKey == <<"c", "o", "n", "v", "e", "r", "s", "a", "t", "i", "o", "n", "s">>
Post == <<"p", "o", "s", "t">>
UserPosts == <<"u", "s", "e", "r", "_">> \o Posts
ChatMessages == <<"c", "h", "a", "t", "-">> \o Messages

\* queryKey[0] of the queries in the cache.
CachedQueries ==
  {Posts, Comments, Reactions, Messages, ConversationsKey, Post, UserPosts,
   ChatMessages}

\* tableName of the subscription key tableName_userId.
TableName(key) == IF key = "k1" THEN Posts ELSE Messages

\* key.includes(name)
Includes(key, name) ==
  \E i \in 0..(Len(key) - Len(name)) : SubSeq(key, i + 1, i + Len(name)) = name

\* A predicate that looks for the table name only.
InvalidatePredicateTableOnly(key, tableName) == Includes(key, tableName)

\* The predicate handed to queryClient.invalidateQueries.
InvalidatePredicate(key, tableName) ==
  \/ Includes(key, tableName)
  \/ Includes(key, Posts)
  \/ Includes(key, Comments)
  \/ Includes(key, Reactions)

\* handleMessage is not waiting for a profile.
NoLookup == [state |-> "none", channel |-> NoChannel, sender |-> "null",
             messageId |-> 0, tornDown |-> FALSE, appended |-> 0,
             played |-> FALSE, invalidated |-> {}]

NoChange == [channel |-> NoChannel, table |-> <<>>, given |-> FALSE,
             calls |-> 0, invoked |-> "none", invalidated |-> {}]

\* The callback channel c's creator gave to channel.on, run for one change
\* event; `given` tells whether that hook was configured with onDataChange.
ChangeHandler(c, given) ==
  [channel |-> c, table |-> TableName(chans[c].key), given |-> given,
   calls |-> IF given THEN 1 ELSE 0,
   invoked |-> IF given THEN chans[c].owner ELSE "none",
   invalidated |-> {q \in CachedQueries :
                      InvalidatePredicate(q, TableName(chans[c].key))}]

\* The realtime client delivers one change event of the table on channel c.
RTSChange(c, given) ==
  /\ impl = "feed"
  /\ c \in ChannelIds
  /\ chans[c].st = "joined"
  /\ lastChange' = ChangeHandler(c, given)
  /\ UNCHANGED pendingLookup
  /\ UNCHANGED <<chans, rtsVars, csmVars, ucVars, impl, notifierVars, presenceHook, csm2Vars, presenceVars, chatVars,
               mutationVars>>

InitFeedVars == lastChange = NoChange /\ pendingLookup = NoLookup


\* ------------------------------------------- the mutation-style actions
\* useUnifiedChat of part_001, useUnifiedChat of part_002, useSimpleChat.
MutationHooks == {"unifiedChat", "unifiedChat2", "simpleChat"}

MutationKinds(hook) ==
  IF hook = "simpleChat" THEN {"send", "markAsRead"}
  ELSE {"send", "markAsRead", "clear", "delete"}

\* ok: the request succeeded; error: supabase returned an error; noUser: no
\* user is signed in.  In the last two mutationFn throws.
MutationOutcomes == {"ok", "error", "noUser"}

\* Whether the mutation's options have an onError that calls toast().
OnErrorToast(hook, kind) ==
  CASE hook = "unifiedChat"  -> kind \in {"send", "clear", "delete"}
    [] hook = "unifiedChat2" -> kind = "send"
    [] OTHER                 -> FALSE

\* Whether onSuccess calls toast().
OnSuccessToast(hook, kind) == hook = "unifiedChat" /\ kind \in {"clear", "delete"}

\* The query keys onSuccess invalidates.
OnSuccessInvalidates(hook, kind, other) ==
  CASE hook = "simpleChat" -> {"conversations", "messages"}
    [] kind = "send"       -> {"chatUsers", other}
    [] OTHER               -> {"chatUsers"}

NoMutation == [hook |-> "none", kind |-> "none", outcome |-> "none",
               attempts |-> 0, toast |-> "none", invalidated |-> {},
               runs |-> 0, toasts |-> 0]

\* useMutation(options).mutate(...): mutationFn runs once (no retry option is
\* given), then onSuccess or onError.
RunMutation(m, hook, kind, other, o) ==
  LET shown == IF o = "ok" THEN OnSuccessToast(hook, kind)
               ELSE OnErrorToast(hook, kind)
  IN  [hook |-> hook, kind |-> kind, outcome |-> o,
       attempts |-> 1,
       toast |-> IF ~shown THEN "none"
                 ELSE IF o = "ok" THEN "default" ELSE "destructive",
       invalidated |-> IF o = "ok" THEN OnSuccessInvalidates(hook, kind, other)
                       ELSE {},
       runs |-> m.runs + 1,
       toasts |-> m.toasts + (IF shown THEN 1 ELSE 0)]

Mutate(hook, kind, other, o) ==
  /\ impl = "mutation"
  /\ kind \in MutationKinds(hook)
  /\ mutation.runs < MaxMutations
  /\ mutation' = RunMutation(mutation, hook, kind, other, o)
  /\ UNCHANGED <<chans, rtsVars, csmVars, ucVars, impl, notifierVars, presenceHook, csm2Vars, presenceVars, chatVars,
                 feedVars, soundService>>

InitMutationVars == mutation = NoMutation

\* ------------------------------------ EnhancedNotificationSoundService
\* The file has two versions of the class.
SoundVersions == {1, 2}

\* audio: none (null), file (the HTMLAudioElement), beep (the synthesized
\* fallback object).  audioContext: none (null), running, suspended.
AudioKinds == {"none", "file", "beep"}

\* What the browser does with each call play() makes: audioContext.resume(),
\* the first audio.play(), new AudioContext() and the second audio.play().
PlayOutcomes ==
  [resume : {"ok", "fails"}, first : {"ok", "fails"},
   create : {"ok", "fails"}, second : {"ok", "fails"}]

\* createFallbackSound(): audio and audioContext after it; it catches its own
\* exceptions.
CreateFallbackSound(audio, ctx, create) ==
  IF ctx = "none" /\ create = "fails" THEN [audio |-> audio, ctx |-> ctx]
  ELSE [audio |-> "beep", ctx |-> IF ctx = "none" THEN "running" ELSE ctx]

\* audio.play() of the object `audio`: "played", "silent" (the first version's
\* beep returns at once without an audio context) or "fails".
AudioPlay(version, audio, ctx, outcome) ==
  IF audio = "beep" /\ ctx = "none"
  THEN IF version = 1 THEN "silent" ELSE "fails"
  ELSE IF outcome = "ok" THEN "played" ELSE "fails"

NoPlay == [called |-> FALSE, threw |-> FALSE, attempts |-> 0, heard |-> "none"]

\* Only the first version's catch block wraps the fallback in a try.
FallbackGuardedInFirstOnly(version) == version = 1

\* Whether the second audio.play(), made in play()'s catch block, is itself
\* inside a try/catch: lines 141-149 of the first version, 283-289 of the
\* second.
FallbackGuarded(version) == version \in SoundVersions

\* play(): the service after the call and what the caller saw; threw tells
\* whether the promise play() returned was rejected.
Play(version, svc, o) ==
  IF ~svc.isEnabled \/ svc.audio = "none"
  THEN [svc |-> svc,
        r |-> [called |-> TRUE, threw |-> FALSE, attempts |-> 0, heard |-> "none"]]
  ELSE LET resumed == svc.ctx # "suspended" \/ o.resume = "ok"
           ctx1 == IF svc.ctx = "suspended" /\ resumed THEN "running" ELSE svc.ctx
           first == IF resumed THEN AudioPlay(version, svc.audio, ctx1, o.first)
                    ELSE "fails"
           fb == CreateFallbackSound(svc.audio, ctx1, o.create)
           second == AudioPlay(version, fb.audio, fb.ctx, o.second)
       IN  IF first # "fails"
           THEN [svc |-> [svc EXCEPT !.ctx = ctx1],
                 r |-> [called |-> TRUE, threw |-> FALSE, attempts |-> 1,
                        heard |-> IF first = "played" THEN svc.audio ELSE "none"]]
           ELSE [svc |-> [svc EXCEPT !.ctx = fb.ctx, !.audio = fb.audio],
                 r |-> [called |-> TRUE,
                        threw |-> second = "fails" /\ ~FallbackGuarded(version),
                        attempts |-> (IF resumed THEN 1 ELSE 0) + 1,
                        heard |-> IF second = "played" THEN fb.audio ELSE "none"]]

\* The constructor: initializeAudio() with new AudioContext() and new Audio()
\* succeeding or throwing, then createFallbackSound() in its catch block.
NewSoundService(version, init, create) ==
  LET fb == CreateFallbackSound("none", "none", create)
  IN  [version |-> version, isEnabled |-> TRUE,
       audio |-> IF init = "ok" THEN "file" ELSE fb.audio,
       ctx |-> IF init = "ok" THEN "running" ELSE fb.ctx]

SoundPlay(o) ==
  /\ impl = "sound"
  /\ soundService.plays < MaxPlays
  /\ LET p == Play(soundService.svc.version, soundService.svc, o)
     IN  soundService' = [svc |-> p.svc,
                          disabledAt |-> ~soundService.svc.isEnabled,
                          silentAt |-> soundService.svc.audio = "none",
                          plays |-> soundService.plays + 1, last |-> p.r]
  /\ UNCHANGED <<chans, rtsVars, csmVars, ucVars, impl, notifierVars, presenceHook, csm2Vars, presenceVars, chatVars,
                 feedVars, mutation>>

\* setEnabled(enabled)
SoundSetEnabled(enabled) ==
  /\ impl = "sound"
  /\ soundService.svc.isEnabled # enabled
  /\ soundService' = [soundService EXCEPT !.svc.isEnabled = enabled]
  /\ UNCHANGED <<chans, rtsVars, csmVars, ucVars, impl, notifierVars, presenceHook, csm2Vars, presenceVars, chatVars,
                 feedVars, mutation>>

\* The browser suspends a running audio context (a page without interaction).
SoundSuspend ==
  /\ impl = "sound"
  /\ soundService.svc.ctx = "running"
  /\ soundService' = [soundService EXCEPT !.svc.ctx = "suspended"]
  /\ UNCHANGED <<chans, rtsVars, csmVars, ucVars, impl, notifierVars, presenceHook, csm2Vars, presenceVars, chatVars,
                 feedVars, mutation>>

NoSound == [svc |-> NewSoundService(1, "ok", "ok"), disabledAt |-> FALSE,
            silentAt |-> FALSE, plays |-> 0, last |-> NoPlay]

InitSoundVars == soundService = NoSound

InitChans == chans = <<>>

InitRTSVars ==
  /\ activeSubscriptions = [k \in Keys |-> NoEntry]
  /\ subscriptionKeyRef = [h \in Hooks |-> NoKey]
  /\ isSubscribedRef = [h \in Hooks |-> FALSE]
  /\ hookEffect = [h \in Hooks |-> "unmounted"]

\* ------------------------------ ChatSubscriptionManager (1000 ms timer)
CsmOwner == "csm"

\* cleanupTimeout is null, or the handle of the timer that the last
\* unsubscribe() started. Every timer runs the same callback, so the timers
\* whose handle was overwritten are kept as a count per remaining delay.
NoTimer == 0
LatestTimer == 1
Idle == -1
Delays == {0, TickMs, CleanupDelay}
TimerKinds == {"latest", "stale"}

RECURSIVE Total(_, _)
Total(f, S) ==
  IF S = {} THEN 0
  ELSE LET x == CHOOSE y \in S : TRUE IN f[x] + Total(f, S \ {x})

NoTimers == [latest |-> Idle, stale |-> [d \in Delays |-> 0]]

Pending(ts) == (IF ts.latest = Idle THEN 0 ELSE 1) + Total(ts.stale, Delays)

NoRelease == [chan |-> NoChannel, user |-> NoUser, left |-> 0]

CsmInit ==
  [channel |-> NoChannel, channelName |-> NoChannel, isActive |-> FALSE,
   currentUserId |-> NoUser, subscriberCount |-> 0, cleanupTimeout |-> NoTimer,
   isSubscribing |-> FALSE]

\* The manager's fields m with the channel pool cs and the pending timers ts.
World(m, cs, ts) == [m |-> m, chans |-> cs, timers |-> ts]

\* clearTimeout(id)
ClearTimeout(ts, id) ==
  IF id = LatestTimer THEN [ts EXCEPT !.latest = Idle] ELSE ts

\* this.cleanupTimeout = setTimeout(callback, 1000): the handle held before
\* is overwritten, its timer (if still pending) keeps running.
SetTimeout(ts) ==
  [latest |-> CleanupDelay,
   stale |-> IF ts.latest = Idle THEN ts.stale
             ELSE [ts.stale EXCEPT ![ts.latest] = @ + 1]]

\* A forceCleanup() that unsubscribes the channel but keeps the reference.
ForceCleanupKeepsChannel(w) ==
  World([w.m EXCEPT !.currentUserId = NoUser, !.isActive = FALSE,
                    !.isSubscribing = FALSE, !.subscriberCount = 0,
                    !.cleanupTimeout = NoTimer],
        IF w.m.channel # NoChannel
        THEN [w.chans EXCEPT ![w.m.channel] = Unsubscribed(w.chans[w.m.channel])]
        ELSE w.chans,
        ClearTimeout(w.timers, w.m.cleanupTimeout))

\* forceCleanup()
ForceCleanup(w) ==
  World([w.m EXCEPT !.channel = NoChannel, !.channelName = NoChannel,
                    !.currentUserId = NoUser, !.isActive = FALSE,
                    !.isSubscribing = FALSE, !.subscriberCount = 0,
                    !.cleanupTimeout = NoTimer],
        IF w.m.channel # NoChannel
        THEN [w.chans EXCEPT ![w.m.channel] = Unsubscribed(w.chans[w.m.channel])]
        ELSE w.chans,
        ClearTimeout(w.timers, w.m.cleanupTimeout))

\* What the realtime client may do while a channel is created and subscribed.
CreateOutcomes == {"ok", "throwChannel", "throwSubscribe"}

\* A catch block that only logs: the creating flag set on entry stays set.
CreateFailedKeepsFlag(w) == w

\* The catch block of createSubscription.
CreateFailed(w) == ForceCleanup([w EXCEPT !.m.isSubscribing = FALSE])

\* createSubscription(userId), entered with isSubscribing = false.
CreateSubscription(w, userId, outcome) ==
  LET id == Len(w.chans) + 1
      named == [w EXCEPT !.m.isSubscribing = TRUE, !.m.channelName = id]
      made == [named EXCEPT !.chans = Append(w.chans, NewChannel(userId, CsmOwner)),
                            !.m.channel = id, !.m.currentUserId = userId]
      unjoined == [made EXCEPT !.chans[id] = UnjoinedChannel(userId, CsmOwner)]
  IN  CASE outcome = "ok" -> made
        [] outcome = "throwChannel" -> CreateFailed(named)
        [] OTHER -> CreateFailed(unjoined)

\* Whether subscribe(userId) takes the reuse branch.
AlreadySubscribed(m, userId) ==
  m.isActive /\ m.currentUserId = userId /\ m.channel # NoChannel

\* subscribe(userId) once past the isSubscribing guard.
SubscribeAccepted(w, userId, outcome) ==
  LET counted == [w EXCEPT !.m.subscriberCount = @ + 1]
  IN  IF AlreadySubscribed(counted.m, userId) THEN counted
      ELSE CreateSubscription(ForceCleanup(counted), userId, outcome)

CsmNow == World(csm, chans, timers)

CsmSet(w) ==
  /\ csm' = w.m
  /\ chans' = w.chans
  /\ timers' = w.timers

HeldTotal == Total(csmHolders, Users)

\* A consumer calls subscribe(userId).
CSMSubscribe(userId, outcome) ==
  /\ impl \in CsmModes
  /\ HeldTotal < MaxConsumers
  /\ IF csm.isSubscribing
     THEN /\ outcome = "ok"
          /\ csmRet' = "rejected"
          /\ UNCHANGED <<csm, chans, timers, csmHolders, csmRel>>
     ELSE /\ IF AlreadySubscribed(csm, userId)
             THEN outcome = "ok"
             ELSE Len(chans) < MaxChannels
          /\ CsmSet(SubscribeAccepted(CsmNow, userId, outcome))
          /\ csmRet' = IF AlreadySubscribed(csm, userId) THEN "reused"
                       ELSE IF outcome = "ok" THEN "created" ELSE "failed"
          /\ csmHolders' = [csmHolders EXCEPT ![userId] = @ + 1]
          /\ csmRel' = NoRelease
  /\ UNCHANGED <<topicIsName, rtsVars, ucVars, impl, notifierVars, presenceHook, csm2Vars, feedVars, mutationVars, presenceVars, chatVars>>

\* unsubscribe() without the Math.max(0, ...) floor.
UnsubscribeNoFloor(w) ==
  IF w.m.subscriberCount - 1 = 0
  THEN World([w.m EXCEPT !.subscriberCount = 0, !.cleanupTimeout = LatestTimer],
             w.chans, SetTimeout(w.timers))
  ELSE [w EXCEPT !.m.subscriberCount = @ - 1]

\* unsubscribe()
Unsubscribe(w) ==
  LET left == IF w.m.subscriberCount - 1 > 0 THEN w.m.subscriberCount - 1 ELSE 0
  IN  IF left = 0
      THEN World([w.m EXCEPT !.subscriberCount = 0, !.cleanupTimeout = LatestTimer],
                 w.chans, SetTimeout(w.timers))
      ELSE [w EXCEPT !.m.subscriberCount = left]

\* A consumer that holds userId's subscription calls unsubscribe().
CSMUnsubscribe(userId) ==
  /\ impl \in CsmModes
  /\ csmHolders[userId] > 0
  /\ csm.subscriberCount > 1 \/ Pending(timers) < MaxTimers
  /\ CsmSet(Unsubscribe(CsmNow))
  /\ csmHolders' = [csmHolders EXCEPT ![userId] = @ - 1]
  /\ csmRel' = IF csm.subscriberCount > 1 THEN csmRel
               ELSE IF csm.isActive /\ csm.channel # NoChannel
               THEN [chan |-> csm.channel, user |-> csm.currentUserId,
                     left |-> CleanupDelay]
               ELSE NoRelease
  /\ csmRet' = "none"
  /\ UNCHANGED <<topicIsName, rtsVars, ucVars, impl, notifierVars, presenceHook, csm2Vars, feedVars, mutationVars, presenceVars, chatVars>>

\* The callback unsubscribe() gave to setTimeout.
CleanupTimer(w) == IF w.m.subscriberCount = 0 THEN ForceCleanup(w) ELSE w

Due(ts, t) == IF t = "latest" THEN ts.latest = 0 ELSE ts.stale[0] > 0

Fired(ts, t) ==
  IF t = "latest" THEN [ts EXCEPT !.latest = Idle]
  ELSE [ts EXCEPT !.stale[0] = @ - 1]

\* A timer of kind t is due: its callback runs.
CSMTimerFire(t) ==
  /\ impl \in CsmModes
  /\ Due(timers, t)
  /\ CsmSet(CleanupTimer([CsmNow EXCEPT !.timers = Fired(timers, t)]))
  /\ csmRet' = "none"
  /\ UNCHANGED <<topicIsName, csmHolders, csmRel, rtsVars, ucVars, impl, notifierVars, presenceHook, csm2Vars, feedVars, mutationVars, presenceVars, chatVars>>

\* Time passes; no timer is late.
Elapse(ts) ==
  [latest |-> IF ts.latest = Idle THEN Idle ELSE ts.latest - TickMs,
   stale |-> [d \in Delays |-> IF d + TickMs \in Delays
                               THEN ts.stale[d + TickMs] ELSE 0]]

Tick ==
  /\ impl \in CsmModes
  /\ Pending(timers) > 0
  /\ \A t \in TimerKinds : ~Due(timers, t)
  /\ timers' = Elapse(timers)
  /\ csmRel' = IF csmRel.left > TickMs THEN [csmRel EXCEPT !.left = @ - TickMs]
               ELSE NoRelease
  /\ csmRet' = "none"
  /\ UNCHANGED <<csm, chans, topicIsName, csmHolders, rtsVars, ucVars, impl, notifierVars, presenceHook, csm2Vars, feedVars, mutationVars, presenceVars, chatVars>>

\* The callback given to channel.subscribe() in createSubscription.
CsmOnStatus(m, s, sameTopic) ==
  IF s = "SUBSCRIBED"
  THEN [m EXCEPT !.isActive = TRUE, !.isSubscribing = FALSE]
  ELSE IF m.channel # NoChannel /\ sameTopic
       THEN [m EXCEPT !.isActive = FALSE, !.isSubscribing = FALSE,
                      !.channel = NoChannel, !.channelName = NoChannel]
       ELSE [m EXCEPT !.isActive = FALSE, !.isSubscribing = FALSE]

\* this.channel.topic === this.channelName
SameTopic(m) == topicIsName /\ m.channel = m.channelName

\* The client reports status s on channel c.
CSMStatus(c, s) ==
  /\ impl \in CsmModes
  /\ c \in ChannelIds
  /\ chans[c].owner = CsmOwner
  /\ s \in Deliverable(chans[c].st)
  /\ chans' = Delivered(c, s)
  /\ csm' = CsmOnStatus(csm, s, SameTopic(csm))
  /\ csmRel' = IF s \in ErrorStatuses THEN NoRelease ELSE csmRel
  /\ csmRet' = "none"
  /\ UNCHANGED <<timers, topicIsName, csmHolders, rtsVars, ucVars, impl, notifierVars, presenceHook, csm2Vars, feedVars, mutationVars, presenceVars, chatVars>>

InitCSMVars ==
  /\ csm = CsmInit
  /\ timers = NoTimers
  /\ csmHolders = [u \in Users |-> 0]
  /\ csmRet = "none"
  /\ csmRel = NoRelease

\* ------------------------------------ UnifiedChatSubscriptionManager
UcsmOwner == "ucsm"

UcsmInit ==
  [channel |-> NoChannel, currentUserId |-> NoUser, isActive |-> FALSE,
   subscribers |-> [u \in Users |-> 0]]

\* The manager's fields m with the channel pool cs.
UWorld(m, cs) == [m |-> m, chans |-> cs]

\* cleanup()
UcsmCleanup(w) ==
  UWorld([w.m EXCEPT !.channel = NoChannel, !.currentUserId = NoUser,
                     !.isActive = FALSE, !.subscribers = [u \in Users |-> 0]],
         IF w.m.channel # NoChannel
         THEN [w.chans EXCEPT ![w.m.channel] = Unsubscribed(w.chans[w.m.channel])]
         ELSE w.chans)

\* The try block of subscribe(userId, queryClient) and its catch.
UcsmCreate(w, userId, outcome) ==
  LET id == Len(w.chans) + 1
      made == [w EXCEPT !.chans = Append(w.chans, NewChannel(userId, UcsmOwner)),
                        !.m.channel = id, !.m.currentUserId = userId]
      unjoined == [made EXCEPT !.chans[id] = UnjoinedChannel(userId, UcsmOwner)]
  IN  CASE outcome = "ok" -> made
        [] outcome = "throwChannel" -> UcsmCleanup(w)
        [] OTHER -> UcsmCleanup(unjoined)

UcsmReuses(m, userId) ==
  m.isActive /\ m.currentUserId = userId /\ m.channel # NoChannel

\* subscribe(userId, queryClient); subscribers holds one id per call, each
\* starting with the caller's user id, so only their number per user counts.
UcsmSubscribe(w, userId, outcome) ==
  LET added == [w EXCEPT !.m.subscribers[userId] = @ + 1]
  IN  IF UcsmReuses(added.m, userId) THEN added
      ELSE UcsmCreate(UcsmCleanup(added), userId, outcome)

\* unsubscribe(userId)
UcsmUnsubscribe(w, userId) ==
  IF w.m.subscribers[userId] <= 1 THEN UcsmCleanup(w) ELSE w

UcsmNow == UWorld(ucsm, chans)

\* getConnectionStatus()
GetConnectionStatus(m) == [isConnected |-> m.isActive, userId |-> m.currentUserId]

\* useState(false), and the effect's branch without a user
NoView == [user |-> NoUser, isConnected |-> FALSE]

\* const success = subscribe(user.id, queryClient); setIsConnected(success)
ViewAfterSubscribe(userId, success) == [user |-> userId, isConnected |-> success]

\* The setInterval callback of the hook mounted for view.user.
ViewAfterPoll(view, m) ==
  LET status == GetConnectionStatus(m)
  IN  [view EXCEPT !.isConnected = status.isConnected /\ status.userId = view.user]

UcsmSet(w) ==
  /\ ucsm' = w.m
  /\ chans' = w.chans

\* A useUnifiedChat hook's effect runs for the signed-in user.
UCSubscribe(userId, outcome) ==
  /\ impl = "ucsm"
  /\ Total(ucHolders, Users) < MaxUnifiedHooks
  /\ ucsm.subscribers[userId] < MaxSubscribers
  /\ IF UcsmReuses(ucsm, userId) THEN outcome = "ok" ELSE Len(chans) < MaxChannels
  /\ UcsmSet(UcsmSubscribe(UcsmNow, userId, outcome))
  /\ ucRet' = IF UcsmReuses(ucsm, userId) THEN "reused"
              ELSE IF outcome = "ok" THEN "created" ELSE "failed"
  /\ ucHolders' = [ucHolders EXCEPT ![userId] = @ + 1]
  /\ \/ UNCHANGED ucView
     \/ /\ ucView.user = NoUser
        /\ ucView' = ViewAfterSubscribe(userId, UcsmReuses(ucsm, userId) \/ outcome = "ok")
  /\ UNCHANGED <<rtsVars, csmVars, impl, notifierVars, presenceHook, csm2Vars, feedVars, mutationVars, presenceVars, chatVars>>

\* The cleanup of a hook's effect runs.
UCUnsubscribe(userId) ==
  /\ impl = "ucsm"
  /\ ucHolders[userId] > 0
  /\ UcsmSet(UcsmUnsubscribe(UcsmNow, userId))
  /\ ucHolders' = [ucHolders EXCEPT ![userId] = @ - 1]
  /\ ucRet' = "none"
  /\ \/ ucView.user = userId /\ ucView' = NoView
     \/ /\ ucView.user = userId => ucHolders[userId] > 1
        /\ UNCHANGED ucView
  /\ UNCHANGED <<rtsVars, csmVars, impl, notifierVars, presenceHook, csm2Vars, feedVars, mutationVars, presenceVars, chatVars>>

\* The callback given to channel.subscribe() in subscribe().
UcsmOnStatus(m, s) ==
  IF s = "SUBSCRIBED" THEN [m EXCEPT !.isActive = TRUE]
  ELSE [m EXCEPT !.isActive = FALSE]

\* The client reports status s on channel c.
UCStatus(c, s) ==
  /\ impl = "ucsm"
  /\ c \in ChannelIds
  /\ chans[c].owner = UcsmOwner
  /\ s \in Deliverable(chans[c].st)
  /\ chans' = Delivered(c, s)
  /\ ucsm' = UcsmOnStatus(ucsm, s)
  /\ ucRet' = "none"
  /\ UNCHANGED <<ucHolders, ucView, rtsVars, csmVars, impl, notifierVars, presenceHook, csm2Vars, feedVars, mutationVars, presenceVars, chatVars>>

\* The watched hook's 1000 ms status interval fires.
UCPoll ==
  /\ impl = "ucsm"
  /\ ucView.user # NoUser
  /\ ucView' = ViewAfterPoll(ucView, ucsm)
  /\ ucRet' = "none"
  /\ UNCHANGED <<chans, ucsm, ucHolders, rtsVars, csmVars, impl, notifierVars, presenceHook, csm2Vars, feedVars, mutationVars, presenceVars, chatVars>>

InitUCVars ==
  /\ ucsm = UcsmInit
  /\ ucHolders = [u \in Users |-> 0]
  /\ ucRet = "none"
  /\ ucView = NoView

\* ------------------------------------------ UnifiedNotificationService
\* "Keep only last 100 notifications"
MaxNotifications == 100

NoSender == "null"
Senders == Users
\* the user the message handlers are subscribed for
Recipient == "b"

\* What the environment does to one handled message: the profile lookup
\* (.single() resolving with a row, with an error, with neither, or rejecting),
\* the audio element, the steps of addNotification (crypto.randomUUID or a
\* registered listener or the Notification constructor throwing), and whether
\* the manager's queryClient field is set.
LookupOutcomes == {"row", "error", "noRow", "throws"}
SoundOutcomes == {"ok", "fails"}
EmitOutcomes == {"ok", "idThrows", "listenerThrows", "systemThrows"}
Outcomes == [lookup : LookupOutcomes, sound : SoundOutcomes,
             emit : EmitOutcomes, client : BOOLEAN]

NewNotification(id, messageId) ==
  [id |-> id, messageId |-> messageId, read |-> FALSE]

\* saveToStorage(): setItem inside try/catch; a throwing setItem stores nothing.
SaveToStorage(log, store, full) == IF full THEN store ELSE log

\* loadFromStorage(): the parsed array replaces the log as it is.
LoadFromStorage(store) == store

Service == [notifications |-> notifications, storage |-> storage, nextId |-> nextId]

\* addNotification without the slice(0, 100).
AddNotificationNoCap(svc, messageId, full, emit) ==
  IF emit = "idThrows" THEN [svc |-> svc, threw |-> TRUE]
  ELSE LET added == <<NewNotification(svc.nextId, messageId)>> \o svc.notifications
       IN  [svc |-> [notifications |-> added,
                     storage |-> SaveToStorage(added, svc.storage, full),
                     nextId |-> svc.nextId + 1],
            threw |-> emit = "listenerThrows"]

\* addNotification(): build the record, unshift, cut to the first 100, then
\* saveToStorage (guarded), notifyListeners (not guarded), showSystemNotification
\* (guarded), playSound (guarded). threw: an exception left the call.
AddNotification(svc, messageId, full, emit) ==
  IF emit = "idThrows" THEN [svc |-> svc, threw |-> TRUE]
  ELSE LET added == <<NewNotification(svc.nextId, messageId)>> \o svc.notifications
           kept == IF Len(added) > MaxNotifications
                   THEN SubSeq(added, 1, MaxNotifications) ELSE added
       IN  [svc |-> [notifications |-> kept,
                     storage |-> SaveToStorage(kept, svc.storage, full),
                     nextId |-> svc.nextId + 1],
            threw |-> emit = "listenerThrows"]

SetService(svc) ==
  /\ notifications' = svc.notifications
  /\ storage' = svc.storage
  /\ nextId' = svc.nextId
  /\ UNCHANGED storageFull

\* --------------------------------------------------- the message handlers
\* messageKeys.chatUsers() and messageKeys.conversation(sender_id)
CacheKeys(sender) == {"chatUsers", sender}

\* enhancedNotificationSoundService.play(): a failing audio element is caught
\* inside play(), the fallback too; the promise never rejects.
PlayRejects(sound) == FALSE

\* A handler run that did nothing.
Ignored(svc) == [svc |-> svc, invalidated |-> {}, scheduled |-> FALSE]

\* ChatSubscriptionManager.handleMessage (first version): what one run does to
\* the notification service, and the cache keys it invalidates.
CsmHandleMessage(svc, messageId, sender, full, o) ==
  IF o.lookup # "row" THEN Ignored(svc)
  ELSE LET r == AddNotification(svc, messageId, full, o.emit)
       IN  IF r.threw THEN [Ignored(r.svc) EXCEPT !.svc = r.svc]
           ELSE [svc |-> r.svc,
                 invalidated |-> IF o.client THEN CacheKeys(sender) ELSE {},
                 scheduled |-> FALSE]

\* ChatSubscriptionManager.handleMessage (second version): the invalidation is
\* put on the debounce timer, replacing the pending one.
Csm2HandleMessage(svc, messageId, sender, full, o) ==
  IF o.lookup # "row" THEN Ignored(svc)
  ELSE LET r == AddNotification(svc, messageId, full, o.emit)
       IN  IF r.threw THEN [Ignored(r.svc) EXCEPT !.svc = r.svc]
           ELSE [svc |-> r.svc, invalidated |-> {}, scheduled |-> o.client]

\* The handler each useUnifiedChat hook gives to its own channel; conv is the
\* activeConversation the handler captured.
HookHandleMessage(svc, messageId, sender, full, conv, o) ==
  IF conv = sender THEN Ignored(svc)
  ELSE IF o.lookup # "row" THEN Ignored(svc)
  ELSE IF PlayRejects(o.sound) THEN Ignored(svc)
  ELSE LET r == AddNotification(svc, messageId, full, o.emit)
       IN  IF r.threw THEN [Ignored(r.svc) EXCEPT !.svc = r.svc]
           ELSE [svc |-> r.svc, invalidated |-> CacheKeys(sender),
                 scheduled |-> FALSE]

NoEvent == [handler |-> "none", sender |-> NoSender, channels |-> 0,
            lookup |-> "row", sound |-> "ok", emit |-> "ok", client |-> FALSE,
            skipped |-> 0, appended |-> 0, invalidated |-> {}]

Event(handler, sender, channels, skipped, o, svc, r) ==
  [handler |-> handler, sender |-> sender, channels |-> channels,
   lookup |-> o.lookup, sound |-> o.sound, emit |-> o.emit, client |-> o.client,
   skipped |-> skipped, appended |-> r.svc.nextId - svc.nextId,
   invalidated |-> r.invalidated]

\* showSystemNotification, with push enabled and the permission granted: the
\* number of system notifications the handling of event e raised. Every record
\* appended raises one, unless notifyListeners threw before the call or the
\* Notification constructor threw.
SystemNotifications(e) == IF e.emit = "ok" THEN e.appended ELSE 0

\* One message row from `sender` is inserted and the first manager's handler
\* runs for it.
CSMHandleMessage(sender, o) ==
  /\ impl = "handler"
  /\ inserted < MaxMessages
  /\ LET r == CsmHandleMessage(Service, inserted + 1, sender, storageFull, o)
     IN  /\ SetService(r.svc)
         /\ owed' = (owed \cup (IF o.client THEN CacheKeys(sender) ELSE {}))
                      \ r.invalidated
         /\ last' = Event("csm", sender, 1, 0, o, Service, r)
  /\ inserted' = inserted + 1
  /\ UNCHANGED <<debounceTimeout, unified, convOf>>
  /\ UNCHANGED <<chans, rtsVars, csmVars, ucVars, impl, notifierVars, presenceHook, csm2Vars, feedVars, mutationVars, presenceVars>>

\* The same for the second manager's handler.
CSM2HandleMessage(sender, o) ==
  /\ impl = "handler"
  /\ inserted < MaxMessages
  /\ LET r == Csm2HandleMessage(Service, inserted + 1, sender, storageFull, o)
     IN  /\ SetService(r.svc)
         /\ owed' = owed \cup (IF o.client THEN CacheKeys(sender) ELSE {})
         /\ debounceTimeout' = IF r.scheduled THEN sender ELSE debounceTimeout
         /\ last' = Event("csm2", sender, 1, 0, o, Service, r)
  /\ inserted' = inserted + 1
  /\ UNCHANGED <<unified, convOf>>
  /\ UNCHANGED <<chans, rtsVars, csmVars, ucVars, impl, notifierVars, presenceHook, csm2Vars, feedVars, mutationVars, presenceVars>>

\* The 300 ms debounce timer fires: the invalidation of the last scheduled
\* sender runs.
DebounceFire ==
  /\ impl = "handler"
  /\ debounceTimeout # NoSender
  /\ owed' = owed \ CacheKeys(debounceTimeout)
  /\ debounceTimeout' = NoSender
  /\ UNCHANGED <<logVars, inserted, last, unified, convOf>>
  /\ UNCHANGED <<chans, rtsVars, csmVars, ucVars, impl, notifierVars, presenceHook, csm2Vars, feedVars, mutationVars, presenceVars>>

InitLog == notifications = <<>> /\ storage = <<>> /\ nextId = 1

InitEvents ==
  /\ inserted = 0
  /\ owed = {}
  /\ debounceTimeout = NoSender
  /\ last = NoEvent

NoHook == [life |-> "unmounted", activeConversation |-> NoSender,
           channelRef |-> NoChannel, isSubscribedRef |-> FALSE,
           subscriptionIdRef |-> NoUser, isConnected |-> FALSE]

InitHooks == unified = [h \in Hooks |-> NoHook] /\ convOf = <<>>

InitChatVars == InitLog /\ storageFull = FALSE /\ InitEvents /\ InitHooks

\* ---------------------- handleMessage around its awaited profile lookup
\* The realtime client hands a message row to handleMessage on the manager's
\* joined channel c; handleMessage starts the profile lookup and awaits it.
CSMMessageDelivered(c, sender) ==
  /\ impl = "pending"
  /\ c \in ChannelIds
  /\ chans[c].owner = CsmOwner
  /\ chans[c].st = "joined"
  /\ inserted < MaxLookups
  /\ pendingLookup.state # "pending"
  /\ pendingLookup' = [NoLookup EXCEPT !.state = "pending", !.channel = c,
                                       !.sender = sender,
                                       !.messageId = inserted + 1]
  /\ inserted' = inserted + 1
  /\ UNCHANGED <<logVars, owed, debounceTimeout, last, unified, convOf, lastChange>>
  /\ UNCHANGED <<chans, rtsVars, csmVars, ucVars, impl, notifierVars, presenceHook, csm2Vars, presenceVars, mutationVars>>

\* The lookup resolves and handleMessage runs to its end; tornDown tells
\* whether the manager had unsubscribed the channel by then.
CSMLookupCompletes(o) ==
  /\ impl = "pending"
  /\ pendingLookup.state = "pending"
  /\ LET r == CsmHandleMessage(Service, pendingLookup.messageId,
                               pendingLookup.sender, storageFull, o)
     IN  /\ SetService(r.svc)
         /\ pendingLookup' =
              [pendingLookup EXCEPT
                 !.state = "done",
                 !.tornDown = chans[pendingLookup.channel].unsubs > 0,
                 !.appended = r.svc.nextId - nextId,
                 !.played = o.lookup = "row" /\ o.sound = "ok",
                 !.invalidated = r.invalidated]
  /\ UNCHANGED <<last, inserted, owed, debounceTimeout, unified, convOf, lastChange>>
  /\ UNCHANGED <<chans, rtsVars, csmVars, ucVars, impl, notifierVars, presenceHook, csm2Vars, presenceVars, mutationVars>>

\* The i-th element leaves the sequence.
Without(seq, i) == SubSeq(seq, 1, i - 1) \o SubSeq(seq, i + 1, Len(seq))

\* ------------------------ ChatSubscriptionManager (second version)
\* Time is counted in units of TimeUnit ms. A timer is the number of units left
\* before it fires; sinceSubscription is Date.now() - lastSubscriptionTime,
\* kept up to the throttle.
Csm2Owner == "csm2"

NoDebounce == [kind |-> "none", user |-> NoUser, left |-> 0]

Csm2Init(client) ==
  [channel |-> NoChannel, isActive |-> FALSE, currentUserId |-> NoUser,
   queryClient |-> client, subscriberCount |-> 0,
   cleanupTimeout |-> -1, staleCleanups |-> <<>>,
   debounceTimeout |-> NoDebounce,
   sinceSubscription |-> ThrottleMs \div TimeUnit,
   ret |-> "none"]

\* cleanup(): the manager m and the channels cs after it.
Csm2Cleanup(m, cs) ==
  [m |-> [m EXCEPT !.channel = NoChannel, !.currentUserId = NoUser,
                   !.isActive = FALSE, !.cleanupTimeout = -1,
                   !.debounceTimeout = NoDebounce],
   chans |-> IF m.channel # NoChannel
             THEN [cs EXCEPT ![m.channel] = Unsubscribed(cs[m.channel])]
             ELSE cs]

\* subscribe(userId) counting the caller before the throttle is looked at.
Csm2SubscribeCountsFirst(m, cs, userId) ==
  IF m.sinceSubscription < ThrottleMs \div TimeUnit
  THEN [m |-> [m EXCEPT !.subscriberCount = @ + 1, !.ret = "false"], chans |-> cs]
  ELSE LET m1 == [m EXCEPT !.sinceSubscription = 0,
                           !.subscriberCount = @ + 1, !.ret = "true"]
       IN  IF m1.isActive /\ m1.currentUserId = userId /\ m1.channel # NoChannel
           THEN [m |-> m1, chans |-> cs]
           ELSE LET c == Csm2Cleanup(m1, cs)
                IN  [m |-> [c.m EXCEPT !.debounceTimeout =
                              [kind |-> "create", user |-> userId,
                               left |-> CreateDelay \div TimeUnit]],
                     chans |-> c.chans]

\* subscribe(userId)
Csm2Subscribe(m, cs, userId) ==
  IF m.sinceSubscription < ThrottleMs \div TimeUnit
  THEN [m |-> [m EXCEPT !.ret = "false"], chans |-> cs]
  ELSE LET m1 == [m EXCEPT !.sinceSubscription = 0,
                           !.subscriberCount = @ + 1, !.ret = "true"]
       IN  IF m1.isActive /\ m1.currentUserId = userId /\ m1.channel # NoChannel
           THEN [m |-> m1, chans |-> cs]
           ELSE LET c == Csm2Cleanup(m1, cs)
                IN  [m |-> [c.m EXCEPT !.debounceTimeout =
                              [kind |-> "create", user |-> userId,
                               left |-> CreateDelay \div TimeUnit]],
                     chans |-> c.chans]

\* createSubscription(userId), with supabase.channel(...).on(...).subscribe(...)
\* succeeding or throwing.
Csm2CreateSubscription(m, cs, userId, outcome) ==
  IF outcome = "ok"
  THEN [m |-> [m EXCEPT !.channel = Len(cs) + 1, !.currentUserId = userId],
        chans |-> Append(cs, NewChannel(userId, Csm2Owner))]
  ELSE IF outcome = "throwChannel" THEN Csm2Cleanup(m, cs)
  ELSE Csm2Cleanup([m EXCEPT !.channel = Len(cs) + 1, !.currentUserId = userId],
                   Append(cs, UnjoinedChannel(userId, Csm2Owner)))

Csm2Set(r) ==
  /\ csm2' = r.m
  /\ chans' = r.chans

Csm2Frame ==
  UNCHANGED <<rtsVars, csmVars, ucVars, impl, notifierVars, presenceHook, presenceVars, mutationVars,
              lastChange>>

Csm2ChatFrame ==
  UNCHANGED <<logVars, inserted, owed, debounceTimeout, last, unified, convOf,
              pendingLookup>>

CSM2Subscribe(userId) ==
  /\ impl = "csm2"
  /\ csm2.subscriberCount < MaxConsumers
  /\ Csm2Set(Csm2Subscribe(csm2, chans, userId))
  /\ Csm2Frame /\ Csm2ChatFrame

\* unsubscribe(): the new cleanup timer replaces the field, the old timer
\* (if any) keeps running.
CSM2Unsubscribe ==
  /\ impl = "csm2"
  /\ LET left == IF csm2.subscriberCount - 1 > 0 THEN csm2.subscriberCount - 1 ELSE 0
     IN  IF left = 0
         THEN /\ (csm2.cleanupTimeout >= 0 => Len(csm2.staleCleanups) < MaxStaleCleanups)
              /\ csm2' = [csm2 EXCEPT
                   !.subscriberCount = 0, !.ret = "none",
                   !.staleCleanups = IF csm2.cleanupTimeout >= 0
                                     THEN Append(@, csm2.cleanupTimeout) ELSE @,
                   !.cleanupTimeout = Cleanup2Delay \div TimeUnit]
         ELSE csm2' = [csm2 EXCEPT !.subscriberCount = left, !.ret = "none"]
  /\ UNCHANGED chans
  /\ Csm2Frame /\ Csm2ChatFrame

\* The debounce timer fires: the pending createSubscription, or the pending
\* invalidation of handleMessage.
CSM2DebounceFires(outcome) ==
  /\ impl = "csm2"
  /\ csm2.debounceTimeout.kind # "none"
  /\ csm2.debounceTimeout.left = 0
  /\ LET m == [csm2 EXCEPT !.debounceTimeout.kind = "none", !.ret = "none"]
     IN  IF csm2.debounceTimeout.kind = "create"
         THEN /\ Len(chans) < MaxChannels
              /\ Csm2Set(Csm2CreateSubscription(m, chans, csm2.debounceTimeout.user,
                                                outcome))
         ELSE /\ outcome = "ok"
              /\ Csm2Set([m |-> m, chans |-> chans])
  /\ Csm2Frame /\ Csm2ChatFrame

\* A cleanup timer fires: the one the field holds (i = 0) or an older one.
CSM2CleanupFires(i) ==
  /\ impl = "csm2"
  /\ IF i = 0 THEN csm2.cleanupTimeout = 0
     ELSE i \in 1..Len(csm2.staleCleanups) /\ csm2.staleCleanups[i] = 0
  /\ LET m == IF i = 0 THEN [csm2 EXCEPT !.cleanupTimeout = -1, !.ret = "none"]
              ELSE [csm2 EXCEPT !.staleCleanups = Without(@, i), !.ret = "none"]
     IN  IF m.subscriberCount = 0
         THEN Csm2Set(Csm2Cleanup(m, chans))
         ELSE Csm2Set([m |-> m, chans |-> chans])
  /\ Csm2Frame /\ Csm2ChatFrame

\* The status callback of a channel the manager created.
CSM2Status(c, s) ==
  /\ impl = "csm2"
  /\ c \in ChannelIds
  /\ chans[c].owner = Csm2Owner
  /\ s \in Deliverable(chans[c].st)
  /\ chans' = Delivered(c, s)
  /\ csm2' = [csm2 EXCEPT !.isActive = (s = "SUBSCRIBED"), !.ret = "none"]
  /\ Csm2Frame /\ Csm2ChatFrame

\* A message row is handed to handleMessage, which awaits the profile lookup.
CSM2MessageDelivered(c, sender) ==
  /\ impl = "csm2"
  /\ c \in ChannelIds
  /\ chans[c].owner = Csm2Owner
  /\ chans[c].st = "joined"
  /\ inserted < MaxLookups
  /\ pendingLookup.state # "pending"
  /\ pendingLookup' = [NoLookup EXCEPT !.state = "pending", !.channel = c,
                                       !.sender = sender,
                                       !.messageId = inserted + 1]
  /\ inserted' = inserted + 1
  /\ csm2' = [csm2 EXCEPT !.ret = "none"]
  /\ UNCHANGED <<chans, logVars, owed, debounceTimeout, last, unified, convOf>>
  /\ Csm2Frame

\* The lookup resolves and handleMessage runs to its end: with a queryClient
\* it clears this.debounceTimeout and puts the invalidation there.
CSM2LookupCompletes(o) ==
  /\ impl = "csm2"
  /\ pendingLookup.state = "pending"
  /\ o.client = csm2.queryClient
  /\ LET r == Csm2HandleMessage(Service, pendingLookup.messageId,
                                pendingLookup.sender, storageFull, o)
     IN  /\ SetService(r.svc)
         /\ pendingLookup' = [NoLookup EXCEPT !.state = "done"]
         /\ csm2' = IF r.scheduled
                    THEN [csm2 EXCEPT !.ret = "none", !.debounceTimeout =
                            [kind |-> "invalidate", user |-> pendingLookup.sender,
                             left |-> InvalidateDelay \div TimeUnit]]
                    ELSE [csm2 EXCEPT !.ret = "none"]
  /\ UNCHANGED <<chans, inserted, owed, debounceTimeout, last, unified, convOf>>
  /\ Csm2Frame

\* TimeUnit ms pass; a timer that is due fires first.
CSM2Tick ==
  /\ impl = "csm2"
  /\ csm2.cleanupTimeout # 0
  /\ \A i \in 1..Len(csm2.staleCleanups) : csm2.staleCleanups[i] # 0
  /\ csm2.debounceTimeout.kind # "none" => csm2.debounceTimeout.left # 0
  /\ csm2' = [csm2 EXCEPT
       !.ret = "none",
       !.cleanupTimeout = IF @ > 0 THEN @ - 1 ELSE @,
       !.staleCleanups = [i \in 1..Len(@) |-> @[i] - 1],
       !.debounceTimeout.left = IF @ > 0 THEN @ - 1 ELSE @,
       !.sinceSubscription = IF @ < ThrottleMs \div TimeUnit THEN @ + 1 ELSE @]
  /\ UNCHANGED chans
  /\ Csm2Frame /\ Csm2ChatFrame

InitCsm2Vars == csm2 = Csm2Init(FALSE)

\* ------------------------- useEnhancedUserPresence: one hook's lifecycle
\* life: "idle" before the effect has run, "mounted", "unmounted" after its
\* cleanup; heartbeat: whether the interval is set; requests: the statuses of
\* the upserts not yet answered; row: the status the user's row stores
\* ("none": no row); refused: an upsert was answered with an error;
\* lateBeats: heartbeats sent while the hook was not mounted.
PresenceHookInit ==
  [life |-> "idle", heartbeat |-> FALSE, requests |-> <<>>, row |-> "none",
   refused |-> FALSE, lateBeats |-> 0]

InitPresenceHookVars == presenceHook = PresenceHookInit

\* updatePresence(status) up to its awaited upsert.
UpdatePresenceRequest(h, status) == [h EXCEPT !.requests = Append(@, status)]

PresenceHookFrame ==
  UNCHANGED <<chans, rtsVars, csmVars, ucVars, impl, notifierVars, csm2Vars, feedVars,
              mutationVars, presenceVars, chatVars>>

\* The effect body, with a user and the initial load finished.
PHEffect ==
  /\ impl = "unmount"
  /\ presenceHook.life # "mounted"
  /\ Len(presenceHook.requests) < MaxUpserts
  /\ presenceHook' = [UpdatePresenceRequest(presenceHook, "online")
                        EXCEPT !.life = "mounted", !.heartbeat = TRUE]
  /\ PresenceHookFrame

\* The interval callback.
PHHeartbeatFires ==
  /\ impl = "unmount"
  /\ presenceHook.heartbeat
  /\ Len(presenceHook.requests) < MaxUpserts
  /\ presenceHook' = [UpdatePresenceRequest(presenceHook, "online")
                        EXCEPT !.lateBeats = IF presenceHook.life = "mounted"
                                             THEN @ ELSE @ + 1]
  /\ PresenceHookFrame

WindowEvents == {"focus", "blur", "hidden", "visible", "beforeunload"}

\* A window or document event reaches the listener the effect added;
\* beacon: whether navigator.sendBeacon exists, which only handleBeforeUnload
\* reads (the other events take it as TRUE).
PHWindowEvent(e, beacon) ==
  /\ impl = "unmount"
  /\ presenceHook.life = "mounted"
  /\ Len(presenceHook.requests) < MaxUpserts
  /\ e = "beforeunload" \/ beacon
  /\ presenceHook' =
       CASE e \in {"focus", "visible"} -> UpdatePresenceRequest(presenceHook, "online")
         [] e \in {"blur", "hidden"}   -> UpdatePresenceRequest(presenceHook, "away")
         [] OTHER -> IF beacon THEN presenceHook
                     ELSE UpdatePresenceRequest(presenceHook, "offline")
  /\ PresenceHookFrame

\* The effect's cleanup.
PHCleanup ==
  /\ impl = "unmount"
  /\ presenceHook.life = "mounted"
  /\ Len(presenceHook.requests) < MaxUpserts
  /\ presenceHook' = [UpdatePresenceRequest(presenceHook, "offline")
                        EXCEPT !.life = "unmounted", !.heartbeat = FALSE]
  /\ PresenceHookFrame

\* The server answers the i-th upsert in flight; the requests are separate
\* HTTP calls and are answered in any order.
PHUpsertLands(i, ok) ==
  /\ impl = "unmount"
  /\ i \in 1..Len(presenceHook.requests)
  /\ presenceHook' = [presenceHook EXCEPT
       !.row = IF ok THEN presenceHook.requests[i] ELSE @,
       !.refused = @ \/ ~ok,
       !.requests = Without(@, i)]
  /\ PresenceHookFrame

\* ------------------------------------ useUnifiedChat (one channel per hook)
Conversations == Senders \cup {NoSender}

\* cleanup(): acts only when channelRef and isSubscribedRef are both set.
UHCleanup(u, cs) ==
  IF u.channelRef # NoChannel /\ u.isSubscribedRef
  THEN [hook |-> [u EXCEPT !.channelRef = NoChannel, !.isConnected = FALSE,
                           !.isSubscribedRef = FALSE,
                           !.subscriptionIdRef = NoUser],
        chans |-> [cs EXCEPT ![u.channelRef] = Unsubscribed(cs[u.channelRef])],
        convs |-> convOf]
  ELSE [hook |-> u, chans |-> cs, convs |-> convOf]

\* The effect body for the signed-in user, with activeConversation = conv.
UHEffectBody(h, conv, r) ==
  IF r.hook.isSubscribedRef /\ r.hook.subscriptionIdRef = Recipient
  THEN r
  ELSE LET c == UHCleanup(r.hook, r.chans)
       IN  [hook |-> c.hook,
            chans |-> Append(c.chans, NewChannel(Recipient, h)),
            convs |-> Append(convOf, conv)]

UHSet(h, life, conv, r) ==
  /\ unified' = [unified EXCEPT ![h] = [r.hook EXCEPT !.life = life,
                                         !.activeConversation = conv]]
  /\ chans' = r.chans
  /\ convOf' = r.convs

\* A component using the hook mounts: the effect runs with no active
\* conversation.
UHMount(h) ==
  /\ impl = "unified"
  /\ unified[h].life = "unmounted"
  /\ Len(chans) < MaxChannels
  /\ UHSet(h, "mounted", NoSender,
           UHEffectBody(h, NoSender, [hook |-> unified[h], chans |-> chans,
                                      convs |-> convOf]))
  /\ UNCHANGED <<logVars, inserted, owed, debounceTimeout, last>>
  /\ UNCHANGED <<rtsVars, csmVars, ucVars, impl, notifierVars, presenceHook, csm2Vars, feedVars, mutationVars, presenceVars>>

\* setActiveConversation(conv): activeConversation is a dependency of the
\* effect, so the cleanup the last run returned runs and the effect runs again.
UHSetActiveConversation(h, conv) ==
  /\ impl = "unified"
  /\ unified[h].life = "mounted"
  /\ conv \in Conversations \ {unified[h].activeConversation}
  /\ Len(chans) < MaxChannels
  /\ UHSet(h, "mounted", conv,
           UHEffectBody(h, conv, UHCleanup(unified[h], chans)))
  /\ UNCHANGED <<logVars, inserted, owed, debounceTimeout, last>>
  /\ UNCHANGED <<rtsVars, csmVars, ucVars, impl, notifierVars, presenceHook, csm2Vars, feedVars, mutationVars, presenceVars>>

\* The component unmounts: the effects' cleanups run.
UHUnmount(h) ==
  /\ impl = "unified"
  /\ unified[h].life = "mounted"
  /\ UHSet(h, "gone", unified[h].activeConversation,
           UHCleanup(unified[h], chans))
  /\ UNCHANGED <<logVars, inserted, owed, debounceTimeout, last>>
  /\ UNCHANGED <<rtsVars, csmVars, ucVars, impl, notifierVars, presenceHook, csm2Vars, feedVars, mutationVars, presenceVars>>

\* The status callback of channel c, a closure over the refs of the hook that
\* created it.
UHOnStatus(u, c, s, cs) ==
  IF s = "SUBSCRIBED"
  THEN [hook |-> [u EXCEPT !.isConnected = TRUE, !.channelRef = c,
                           !.isSubscribedRef = TRUE,
                           !.subscriptionIdRef = Recipient],
        chans |-> cs, convs |-> convOf]
  ELSE IF s \in {"CLOSED", "CHANNEL_ERROR"} THEN UHCleanup(u, cs)
  ELSE [hook |-> u, chans |-> cs, convs |-> convOf]

UHStatus(c, s) ==
  /\ impl = "unified"
  /\ c \in ChannelIds
  /\ s \in Deliverable(chans[c].st)
  /\ LET h == chans[c].owner
     IN  UHSet(h, unified[h].life, unified[h].activeConversation,
               UHOnStatus(unified[h], c, s, Delivered(c, s)))
  /\ UNCHANGED <<logVars, inserted, owed, debounceTimeout, last>>
  /\ UNCHANGED <<rtsVars, csmVars, ucVars, impl, notifierVars, presenceHook, csm2Vars, feedVars, mutationVars, presenceVars>>

\* The channels the realtime client delivers the recipient's inserts to.
JoinedChannels ==
  {c \in ChannelIds : chans[c].st = "joined" /\ chans[c].key = Recipient}

\* The handlers of channels c, c+1, ... run for one inserted message.
RECURSIVE HookDeliver(_, _, _, _, _)
HookDeliver(c, acc, messageId, sender, o) ==
  IF c > Len(chans) THEN acc
  ELSE IF c \notin JoinedChannels
  THEN HookDeliver(c + 1, acc, messageId, sender, o)
  ELSE LET r == HookHandleMessage(acc.svc, messageId, sender, storageFull,
                                  convOf[c], o)
       IN  HookDeliver(c + 1,
                       [svc |-> r.svc,
                        invalidated |-> acc.invalidated \cup r.invalidated,
                        scheduled |-> FALSE],
                       messageId, sender, o)

\* One message row from `sender` for the recipient is inserted while at least
\* one channel is joined: every joined channel's handler runs for it.
UHInsert(sender, o) ==
  /\ impl = "unified"
  /\ inserted < MaxMessages
  /\ JoinedChannels # {}
  /\ o.client
  /\ LET r == HookDeliver(1, Ignored(Service), inserted + 1, sender, o)
     IN  /\ SetService(r.svc)
         /\ owed' = (owed \cup CacheKeys(sender)) \ r.invalidated
         /\ last' = Event("hook", sender, Cardinality(JoinedChannels),
                          Cardinality({c \in JoinedChannels : convOf[c] = sender}),
                          o, Service, r)
  /\ inserted' = inserted + 1
  /\ UNCHANGED <<debounceTimeout, unified, convOf>>
  /\ UNCHANGED <<chans, rtsVars, csmVars, ucVars, impl, notifierVars, presenceHook, csm2Vars, feedVars, mutationVars, presenceVars>>

\* ------------------------------- the notification log on its own
\* addNotification called by any producer.
\* The log on its own is run to the cap ("log") or, with every mutator, over a
\* few records ("store").
LogModes == {"log", "store"}

AddBound == IF impl = "log" THEN MaxAdds ELSE MaxRecords

LogAdd(emit) ==
  /\ impl \in LogModes
  /\ nextId <= AddBound
  /\ SetService(AddNotification(Service, nextId, storageFull, emit).svc)
  /\ UNCHANGED <<inserted, owed, debounceTimeout, last, unified, convOf>>
  /\ UNCHANGED <<chans, rtsVars, csmVars, ucVars, impl, notifierVars, presenceHook, csm2Vars, feedVars, mutationVars, presenceVars>>

\* clearAll(): acts only on a non-empty log.
ClearAll(svc, full) ==
  IF Len(svc.notifications) > 0
  THEN [svc EXCEPT !.notifications = <<>>,
                   !.storage = SaveToStorage(<<>>, svc.storage, full)]
  ELSE svc

LogClearAll ==
  /\ impl \in LogModes
  /\ SetService(ClearAll(Service, storageFull))
  /\ UNCHANGED <<inserted, owed, debounceTimeout, last, unified, convOf>>
  /\ UNCHANGED <<chans, rtsVars, csmVars, ucVars, impl, notifierVars, presenceHook, csm2Vars, feedVars, mutationVars, presenceVars>>

\* The page is loaded again: a new service is constructed and reads the store.
LogReload ==
  /\ impl \in LogModes
  /\ notifications' = LoadFromStorage(storage)
  /\ UNCHANGED <<storage, storageFull, nextId>>
  /\ UNCHANGED <<inserted, owed, debounceTimeout, last, unified, convOf>>
  /\ UNCHANGED <<chans, rtsVars, csmVars, ucVars, impl, notifierVars, presenceHook, csm2Vars, feedVars, mutationVars, presenceVars>>

\* markAsRead that changes the record and does not write the store.
MarkAsReadNoSave(svc, id, full) ==
  IF \E i \in 1..Len(svc.notifications) :
       svc.notifications[i].id = id /\ ~svc.notifications[i].read
  THEN [svc EXCEPT !.notifications =
          [i \in 1..Len(svc.notifications) |->
             IF svc.notifications[i].id = id
             THEN [svc.notifications[i] EXCEPT !.read = TRUE]
             ELSE svc.notifications[i]]]
  ELSE svc

\* markAsRead(id): acts only on a known, unread record.
MarkAsRead(svc, id, full) ==
  IF \E i \in 1..Len(svc.notifications) :
       svc.notifications[i].id = id /\ ~svc.notifications[i].read
  THEN LET log == [i \in 1..Len(svc.notifications) |->
                     IF svc.notifications[i].id = id
                     THEN [svc.notifications[i] EXCEPT !.read = TRUE]
                     ELSE svc.notifications[i]]
       IN  [svc EXCEPT !.notifications = log,
                       !.storage = SaveToStorage(log, svc.storage, full)]
  ELSE svc

\* markAllAsRead(): acts only when some record is unread.
MarkAllAsRead(svc, full) ==
  IF \E i \in 1..Len(svc.notifications) : ~svc.notifications[i].read
  THEN LET log == [i \in 1..Len(svc.notifications) |->
                     [svc.notifications[i] EXCEPT !.read = TRUE]]
       IN  [svc EXCEPT !.notifications = log,
                       !.storage = SaveToStorage(log, svc.storage, full)]
  ELSE svc

\* The log without its i-th record (splice(i, 1)).
Spliced(log, i) == SubSeq(log, 1, i - 1) \o SubSeq(log, i + 1, Len(log))

\* removeNotification(id): acts only on a known record.
RemoveNotification(svc, id, full) ==
  IF \E i \in 1..Len(svc.notifications) : svc.notifications[i].id = id
  THEN LET i == CHOOSE i \in 1..Len(svc.notifications) :
                  svc.notifications[i].id = id
           log == Spliced(svc.notifications, i)
       IN  [svc EXCEPT !.notifications = log,
                       !.storage = SaveToStorage(log, svc.storage, full)]
  ELSE svc

\* ids a caller may pass: those of the records created, and one never created
RecordIds == 1..(MaxRecords + 1)

LogMarkAsRead(id) ==
  /\ impl = "store"
  /\ SetService(MarkAsRead(Service, id, storageFull))
  /\ UNCHANGED <<inserted, owed, debounceTimeout, last, unified, convOf>>
  /\ UNCHANGED <<chans, rtsVars, csmVars, ucVars, impl, notifierVars, presenceHook, csm2Vars, feedVars, mutationVars, presenceVars>>

LogMarkAllAsRead ==
  /\ impl = "store"
  /\ SetService(MarkAllAsRead(Service, storageFull))
  /\ UNCHANGED <<inserted, owed, debounceTimeout, last, unified, convOf>>
  /\ UNCHANGED <<chans, rtsVars, csmVars, ucVars, impl, notifierVars, presenceHook, csm2Vars, feedVars, mutationVars, presenceVars>>

LogRemove(id) ==
  /\ impl = "store"
  /\ SetService(RemoveNotification(Service, id, storageFull))
  /\ UNCHANGED <<inserted, owed, debounceTimeout, last, unified, convOf>>
  /\ UNCHANGED <<chans, rtsVars, csmVars, ucVars, impl, notifierVars, presenceHook, csm2Vars, feedVars, mutationVars, presenceVars>>

\* --------------------------------------------- useEnhancedUserPresence
\* setInterval(..., 25000) and diffSeconds > 90, in seconds
HeartbeatInterval == 25
StalenessThreshold == 90

PresenceStatuses == {"online", "offline", "away", "typing"}

\* userStatuses.get(userId) of a user the map has no row for
NoRow == [status |-> "none", last_seen |-> -1]

\* getUserStatus with the comparison diffSeconds >= 90.
GetUserStatusInclusive(map, userId, now) ==
  LET presence == map[userId]
  IN  IF presence = NoRow THEN "offline"
      ELSE IF now - presence.last_seen >= StalenessThreshold THEN "offline"
      ELSE presence.status

\* getUserStatus(userId), called when the observer's clock shows `now`.
GetUserStatus(map, userId, now) ==
  LET presence == map[userId]
  IN  IF presence = NoRow THEN "offline"
      ELSE IF now - presence.last_seen > StalenessThreshold THEN "offline"
      ELSE presence.status

\* isUserOnline(userId)
IsUserOnline(map, userId, now) ==
  GetUserStatus(map, userId, now) \in {"online", "typing"}

\* isUserTyping(userId), called without a conversationId.
IsUserTyping(map, userId) ==
  LET presence == map[userId]
  IN  IF presence = NoRow \/ presence.status # "typing" THEN FALSE
      ELSE TRUE

\* A handler that takes INSERT and DELETE events and drops UPDATE events.
PresenceHandlerInsertOnly(map, ev) ==
  IF ev.kind = "DELETE" THEN [map EXCEPT ![ev.user] = NoRow]
  ELSE IF ev.kind = "INSERT" THEN [map EXCEPT ![ev.user] = ev.row]
  ELSE map

\* A handler that sets rows and never removes one.
PresenceHandlerKeepsDeleted(map, ev) ==
  IF ev.kind = "DELETE" THEN map
  ELSE [map EXCEPT ![ev.user] = ev.row]

\* The presenceChannel handler: the map after one change event.
PresenceHandler(map, ev) ==
  IF ev.kind = "DELETE" THEN [map EXCEPT ![ev.user] = NoRow]
  ELSE [map EXCEPT ![ev.user] = ev.row]

\* The clock moves in steps of half the staleness threshold when the map is
\* exercised, and of 5 s when the heartbeat schedule is.
PresenceStep == IF impl = "heartbeat" THEN 5 ELSE StalenessThreshold \div 2

\* Change events pending between the table and the subscribed client.
InFlightBound == IF impl = "heartbeat" THEN MaxBeatsInFlight ELSE MaxInFlight

MaxClock ==
  IF impl = "heartbeat" THEN MaxBeatTicks * PresenceStep
  ELSE MaxPresenceTicks * PresenceStep

\* updatePresence(status) by client u: the upsert writes the row with the
\* client's current time and the table emits INSERT or UPDATE.
UpdatePresence(u, status) ==
  /\ Len(inflight) < InFlightBound
  /\ inflight' = Append(inflight,
       [kind |-> IF presenceTable[u] THEN "UPDATE" ELSE "INSERT",
        user |-> u, row |-> [status |-> status, last_seen |-> clock],
        sent |-> clock])
  /\ presenceTable' = [presenceTable EXCEPT ![u] = TRUE]
  /\ presenceLog' = [presenceLog EXCEPT !.sends = @ + 1]

PUpdate(u, status) ==
  /\ impl = "presence"
  /\ presenceLog.sends < MaxSends
  /\ UpdatePresence(u, status)
  /\ UNCHANGED <<clock, userStatuses, nextBeat>>
  /\ UNCHANGED <<chans, rtsVars, csmVars, ucVars, chatVars, impl, notifierVars, presenceHook, csm2Vars, feedVars, mutationVars>>

\* The row of u is deleted from the table (not by this client code).
PDeleteRow(u) ==
  /\ impl = "presence"
  /\ presenceTable[u]
  /\ presenceLog.sends < MaxSends
  /\ Len(inflight) < InFlightBound
  /\ inflight' = Append(inflight, [kind |-> "DELETE", user |-> u, row |-> NoRow,
                                   sent |-> clock])
  /\ presenceTable' = [presenceTable EXCEPT ![u] = FALSE]
  /\ presenceLog' = [presenceLog EXCEPT !.sends = @ + 1]
  /\ UNCHANGED <<clock, userStatuses, nextBeat>>
  /\ UNCHANGED <<chans, rtsVars, csmVars, ucVars, chatVars, impl, notifierVars, presenceHook, csm2Vars, feedVars, mutationVars>>

\* The realtime client gives the i-th pending event to the observer's handler.
PDeliver(i) ==
  /\ impl \in {"presence", "heartbeat"}
  /\ i \in 1..Len(inflight)
  /\ userStatuses' = PresenceHandler(userStatuses, inflight[i])
  /\ inflight' = Without(inflight, i)
  /\ presenceLog' = [presenceLog EXCEPT
                       !.outOfOrder = @ \/ i > 1,
                       !.arrived = TRUE]
  /\ UNCHANGED <<clock, presenceTable, nextBeat>>
  /\ UNCHANGED <<chans, rtsVars, csmVars, ucVars, chatVars, impl, notifierVars, presenceHook, csm2Vars, feedVars, mutationVars>>

\* Time passes; a due heartbeat fires before the clock moves on.
PTick ==
  /\ impl \in {"presence", "heartbeat"}
  /\ clock < MaxClock
  /\ impl = "heartbeat" => nextBeat > clock
  /\ clock' = clock + PresenceStep
  /\ presenceLog' = [presenceLog EXCEPT !.late =
       @ \/ \E i \in 1..Len(inflight) :
              clock + PresenceStep - inflight[i].sent
                >= StalenessThreshold - HeartbeatInterval]
  /\ UNCHANGED <<presenceTable, inflight, userStatuses, nextBeat>>
  /\ UNCHANGED <<chans, rtsVars, csmVars, ucVars, chatVars, impl, notifierVars, presenceHook, csm2Vars, feedVars, mutationVars>>

\* The client whose heartbeat is watched
Watched == "u1"

\* The watched client's effect has run: updatePresence('online') at once and
\* then from the 25 s interval timer, each when it is due.
PHeartbeat ==
  /\ impl = "heartbeat"
  /\ clock = nextBeat
  /\ UpdatePresence(Watched, "online")
  /\ nextBeat' = clock + HeartbeatInterval
  /\ UNCHANGED <<clock, userStatuses>>
  /\ UNCHANGED <<chans, rtsVars, csmVars, ucVars, chatVars, impl, notifierVars, presenceHook, csm2Vars, feedVars, mutationVars>>

InitPresenceVars ==
  /\ clock = 0
  /\ presenceTable = [u \in Users |-> FALSE]
  /\ inflight = <<>>
  /\ userStatuses = [u \in Users |-> NoRow]
  /\ nextBeat = 0
  /\ presenceLog = [sends |-> 0, outOfOrder |-> FALSE, late |-> FALSE,
                    arrived |-> FALSE]

\* ------------------- UnifiedNotificationService: sound and listeners
NoSounds == [handled |-> FALSE, enhanced |-> 0, unified |-> 0, soundEnabled |-> TRUE]

\* playSound(): the sounds it makes; audio: what audio.play() does.
PlaySound(enabled, audio) ==
  IF ~enabled THEN 0
  ELSE IF audio = "ok" THEN 1 ELSE 0

NotifierFrame ==
  UNCHANGED <<chans, rtsVars, csmVars, ucVars, impl, presenceHook, csm2Vars,
              feedVars, presenceVars, mutation>>

\* ChatSubscriptionManager.handleMessage for one inserted message, with the
\* sounds it plays: enhancedNotificationSoundService.play(), then
\* addMessageNotification, whose addNotification ends with playSound().
ChimeHandleMessage(o, po, audio) ==
  /\ impl = "chime"
  /\ inserted < MaxMessages
  /\ inserted' = inserted + 1
  /\ IF o.lookup # "row"
     THEN /\ lastSounds' = [NoSounds EXCEPT !.handled = TRUE,
                                            !.soundEnabled = soundEnabled]
          /\ UNCHANGED <<logVars, soundService>>
     ELSE LET p == Play(soundService.svc.version, soundService.svc, po)
              r == AddNotification(Service, inserted + 1, storageFull, o.emit)
          IN  /\ soundService' = [soundService EXCEPT !.svc = p.svc, !.last = p.r]
              /\ SetService(r.svc)
              /\ lastSounds' =
                   [handled |-> TRUE,
                    enhanced |-> IF p.r.heard # "none" THEN 1 ELSE 0,
                    unified |-> IF r.threw THEN 0 ELSE PlaySound(soundEnabled, audio),
                    soundEnabled |-> soundEnabled]
  /\ UNCHANGED <<owed, debounceTimeout, last, unified, convOf>>
  /\ UNCHANGED <<soundEnabled, listeners, lastCall>>
  /\ NotifierFrame

\* unifiedNotificationService.setSoundEnabled(enabled)
ChimeSetSoundEnabled(enabled) ==
  /\ impl = "chime"
  /\ soundEnabled # enabled
  /\ soundEnabled' = enabled
  /\ UNCHANGED <<listeners, lastCall, lastSounds, soundService, chatVars>>
  /\ NotifierFrame

\* enhancedNotificationSoundService.setEnabled(enabled)
ChimeSetEnabled(enabled) ==
  /\ impl = "chime"
  /\ soundService.svc.isEnabled # enabled
  /\ soundService' = [soundService EXCEPT !.svc.isEnabled = enabled]
  /\ UNCHANGED <<notifierVars, chatVars>>
  /\ NotifierFrame

Listeners == {"l1", "l2"}

NoListener == "none"

Mutators == {"add", "markAsRead", "markAllAsRead", "remove", "clearAll"}

Members(ls) == {ls[i] : i \in 1..Len(ls)}

NoCalls == [l \in Listeners |-> 0]

NoCall == [op |-> "none", who |-> NoListener, subscribed |-> {}, calls |-> NoCalls,
           changed |-> FALSE, wrote |-> FALSE, threw |-> FALSE]

\* notifyListeners(): forEach over the set in insertion order; the listener
\* `thrower` throws, which ends the forEach.
NotifyListeners(ls, thrower) ==
  [l \in Listeners |->
     IF \E i \in 1..Len(ls) :
          ls[i] = l /\ \A j \in 1..(i - 1) : ls[j] # thrower
     THEN 1 ELSE 0]

\* subscribe(listener): Set.add, then the listener is called with the log.
NSSubscribe(l) ==
  /\ impl = "listeners"
  /\ listeners' = IF l \in Members(listeners) THEN listeners
                  ELSE Append(listeners, l)
  /\ lastCall' = [NoCall EXCEPT !.op = "subscribe", !.who = l,
                                !.subscribed = Members(listeners'),
                                !.calls = [NoCalls EXCEPT ![l] = 1]]
  /\ UNCHANGED <<soundEnabled, lastSounds, soundService, chatVars>>
  /\ NotifierFrame

\* The function subscribe(listener) returned is called.
NSUnsubscribe(l) ==
  /\ impl = "listeners"
  /\ l \in Members(listeners)
  /\ listeners' = SelectSeq(listeners, LAMBDA x : x # l)
  /\ lastCall' = [NoCall EXCEPT !.op = "unsubscribe", !.who = l,
                                !.subscribed = Members(listeners')]
  /\ UNCHANGED <<soundEnabled, lastSounds, soundService, chatVars>>
  /\ NotifierFrame

\* Whether the mutator's if-branch (save, notify) is taken.
Acts(svc, kind, id) ==
  CASE kind = "add" -> TRUE
    [] kind = "markAsRead" ->
         \E i \in 1..Len(svc.notifications) :
           svc.notifications[i].id = id /\ ~svc.notifications[i].read
    [] kind = "markAllAsRead" ->
         \E i \in 1..Len(svc.notifications) : ~svc.notifications[i].read
    [] kind = "remove" ->
         \E i \in 1..Len(svc.notifications) : svc.notifications[i].id = id
    [] OTHER -> Len(svc.notifications) > 0

\* The service after the mutator.
Mutated(svc, kind, id, full, thrower, ls) ==
  CASE kind = "add" ->
         AddNotification(svc, svc.nextId, full,
                         IF thrower \in Members(ls) THEN "listenerThrows"
                         ELSE "ok").svc
    [] kind = "markAsRead" -> MarkAsRead(svc, id, full)
    [] kind = "markAllAsRead" -> MarkAllAsRead(svc, full)
    [] kind = "remove" -> RemoveNotification(svc, id, full)
    [] OTHER -> ClearAll(svc, full)

\* One of addNotification, markAsRead, markAllAsRead, removeNotification and
\* clearAll is called.
NSMutate(kind, id, thrower) ==
  /\ impl = "listeners"
  /\ kind = "add" => nextId <= MaxRecords
  /\ kind \notin {"markAsRead", "remove"} => id = 1
  /\ SetService(Mutated(Service, kind, id, storageFull, thrower, listeners))
  /\ lastCall' =
       [op |-> kind, who |-> NoListener, subscribed |-> Members(listeners),
        calls |-> IF Acts(Service, kind, id)
                  THEN NotifyListeners(listeners, thrower) ELSE NoCalls,
        changed |-> notifications' # notifications,
        wrote |-> Acts(Service, kind, id),
        threw |-> Acts(Service, kind, id) /\ thrower \in Members(listeners)]
  /\ UNCHANGED <<inserted, owed, debounceTimeout, last, unified, convOf>>
  /\ UNCHANGED <<soundEnabled, listeners, lastSounds, soundService>>
  /\ NotifierFrame

InitNotifierVars ==
  /\ soundEnabled = TRUE
  /\ listeners = <<>>
  /\ lastCall = NoCall
  /\ lastSounds = NoSounds

InitIdle ==
  InitChans /\ InitRTSVars /\ InitCSMVars /\ InitUCVars /\ InitChatVars
  /\ InitPresenceVars /\ InitFeedVars /\ InitMutationVars /\ InitSoundVars /\ InitCsm2Vars /\ InitPresenceHookVars /\ InitNotifierVars

InitRTS == InitIdle /\ topicIsName = TRUE /\ impl = "rts"

InitCSM == InitIdle /\ topicIsName \in BOOLEAN /\ impl = "csm"

InitUCSM == InitIdle /\ topicIsName = TRUE /\ impl = "ucsm"

InitManagers == InitCSM \/ InitUCSM

NextRTS ==
  \/ \E h \in Hooks, k \in Keys : RTSEffect(h, k)
  \/ \E h \in Hooks : RTSEffectNoUser(h)
  \/ \E h \in Hooks : RTSUnmount(h)
  \/ \E c \in 1..MaxChannels, s \in Statuses : RTSStatus(c, s)

NextCSM ==
  \/ \E u \in Users, o \in CreateOutcomes : CSMSubscribe(u, o)
  \/ \E u \in Users : CSMUnsubscribe(u)
  \/ \E t \in TimerKinds : CSMTimerFire(t)
  \/ Tick
  \/ \E c \in 1..MaxChannels, s \in Statuses : CSMStatus(c, s)

NextUCSM ==
  \/ \E u \in Users, o \in CreateOutcomes : UCSubscribe(u, o)
  \/ \E u \in Users : UCUnsubscribe(u)
  \/ \E c \in 1..MaxChannels, s \in Statuses : UCStatus(c, s)
  \/ UCPoll

NextManagers == NextCSM \/ NextUCSM

SpecRTS == InitRTS /\ [][NextRTS]_vars

\* useRealtimeSubscription with the change events of its tables.
InitFeed == InitIdle /\ topicIsName = TRUE /\ impl = "feed"

NextFeed ==
  \/ \E h \in Hooks, k \in Keys : RTSEffect(h, k)
  \/ \E h \in Hooks : RTSUnmount(h)
  \/ \E c \in 1..MaxChannels, s \in Statuses : RTSStatus(c, s)
  \/ \E c \in 1..MaxChannels, given \in BOOLEAN : RTSChange(c, given)

SpecFeed == InitFeed /\ [][NextFeed]_vars

\* ChatSubscriptionManager with the messages delivered on its channel.
InitPending ==
  /\ InitChans /\ InitRTSVars /\ InitCSMVars /\ InitUCVars
  /\ InitLog /\ InitEvents /\ InitHooks /\ InitPresenceVars /\ InitFeedVars
  /\ InitMutationVars /\ InitSoundVars /\ InitCsm2Vars /\ InitPresenceHookVars /\ InitNotifierVars
  /\ storageFull = FALSE
  /\ topicIsName = TRUE
  /\ impl = "pending"

NextPending ==
  \/ \E u \in Users, o \in CreateOutcomes : CSMSubscribe(u, o)
  \/ \E u \in Users : CSMUnsubscribe(u)
  \/ \E t \in TimerKinds : CSMTimerFire(t)
  \/ Tick
  \/ \E c \in 1..MaxChannels, s \in Statuses : CSMStatus(c, s)
  \/ \E c \in 1..MaxChannels, sender \in Senders : CSMMessageDelivered(c, sender)
  \/ \E o \in Outcomes : CSMLookupCompletes(o)

SpecPending == InitPending /\ [][NextPending]_vars

\* ChatSubscriptionManager (second version): subscribe, unsubscribe, timers,
\* status callbacks and message handling.
InitCSM2 ==
  /\ InitChans /\ InitRTSVars /\ InitCSMVars /\ InitUCVars
  /\ InitLog /\ InitEvents /\ InitHooks /\ InitPresenceVars /\ InitFeedVars
  /\ InitMutationVars /\ InitSoundVars
  /\ storageFull = FALSE
  /\ topicIsName = TRUE
  /\ impl = "csm2"
  /\ InitPresenceHookVars /\ InitNotifierVars
  /\ \E client \in BOOLEAN : csm2 = Csm2Init(client)

NextCSM2 ==
  \/ \E u \in Users : CSM2Subscribe(u)
  \/ CSM2Unsubscribe
  \/ \E o \in CreateOutcomes : CSM2DebounceFires(o)
  \/ \E i \in 0..MaxStaleCleanups : CSM2CleanupFires(i)
  \/ \E c \in 1..MaxChannels, s \in Statuses : CSM2Status(c, s)
  \/ \E c \in 1..MaxChannels, sender \in Senders : CSM2MessageDelivered(c, sender)
  \/ \E o \in {x \in Outcomes : x.sound = "ok"} : CSM2LookupCompletes(o)
  \/ CSM2Tick

SpecCSM2 == InitCSM2 /\ [][NextCSM2]_vars

\* One useEnhancedUserPresence hook mounting and unmounting.
InitUnmount == InitIdle /\ topicIsName = TRUE /\ impl = "unmount"

NextUnmount ==
  \/ PHEffect
  \/ PHHeartbeatFires
  \/ \E e \in WindowEvents, beacon \in BOOLEAN : PHWindowEvent(e, beacon)
  \/ PHCleanup
  \/ \E i \in 1..MaxUpserts, ok \in BOOLEAN : PHUpsertLands(i, ok)

SpecUnmount == InitUnmount /\ [][NextUnmount]_vars

\* The message handler with both sound services.
InitChime == InitIdle /\ topicIsName = TRUE /\ impl = "chime"

NextChime ==
  \/ \E o \in Outcomes, po \in PlayOutcomes, audio \in {"ok", "fails"} :
       ChimeHandleMessage(o, po, audio)
  \/ \E enabled \in BOOLEAN : ChimeSetSoundEnabled(enabled)
  \/ \E enabled \in BOOLEAN : ChimeSetEnabled(enabled)

SpecChime == InitChime /\ [][NextChime]_vars

\* The notification service with its listeners.
InitListeners ==
  /\ InitChans /\ InitRTSVars /\ InitCSMVars /\ InitUCVars
  /\ InitLog /\ InitEvents /\ InitHooks /\ InitPresenceVars /\ InitFeedVars
  /\ InitMutationVars /\ InitSoundVars /\ InitCsm2Vars /\ InitPresenceHookVars
  /\ InitNotifierVars
  /\ storageFull \in BOOLEAN
  /\ topicIsName = TRUE
  /\ impl = "listeners"

NextListeners ==
  \/ \E l \in Listeners : NSSubscribe(l)
  \/ \E l \in Listeners : NSUnsubscribe(l)
  \/ \E kind \in Mutators, id \in RecordIds, thrower \in Listeners \cup {NoListener} :
       NSMutate(kind, id, thrower)

SpecListeners == InitListeners /\ [][NextListeners]_vars

\* Both versions of the ChatSubscriptionManager of useSimpleChat.ts.
InitBothCSM == InitCSM \/ InitCSM2

NextBothCSM == NextCSM \/ NextCSM2

SpecBothCSM == InitBothCSM /\ [][NextBothCSM]_vars

\* The mutations of the chat hooks.
InitMutations == InitIdle /\ topicIsName = TRUE /\ impl = "mutation"

NextMutations ==
  \E hook \in MutationHooks, kind \in {"send", "markAsRead", "clear", "delete"},
     other \in Users, o \in MutationOutcomes : Mutate(hook, kind, other, o)

SpecMutations == InitMutations /\ [][NextMutations]_vars

\* The notification sound service, built by either version's constructor.
InitSound ==
  /\ InitChans /\ InitRTSVars /\ InitCSMVars /\ InitUCVars /\ InitChatVars
  /\ InitPresenceVars /\ InitFeedVars /\ mutation = NoMutation /\ InitCsm2Vars /\ InitPresenceHookVars /\ InitNotifierVars
  /\ topicIsName = TRUE /\ impl = "sound"
  /\ \E v \in SoundVersions, init \in {"ok", "fails"}, create \in {"ok", "fails"} :
       soundService = [svc |-> NewSoundService(v, init, create),
                       disabledAt |-> FALSE, silentAt |-> FALSE, plays |-> 0,
                       last |-> NoPlay]

NextSound ==
  \/ \E o \in PlayOutcomes : SoundPlay(o)
  \/ \E enabled \in BOOLEAN : SoundSetEnabled(enabled)
  \/ SoundSuspend

SpecSound == InitSound /\ [][NextSound]_vars

SpecCSM == InitCSM /\ [][NextCSM]_vars

SpecUCSM == InitUCSM /\ [][NextUCSM]_vars

\* Either singleton manager: the claims made of both are checked here.
SpecManagers == InitManagers /\ [][NextManagers]_vars

\* The two reference-counting registries: the hook's global map, or the
\* ChatSubscriptionManager singleton.
InitRegistry == InitRTS \/ InitCSM

NextRegistry == NextRTS \/ NextCSM

SpecRegistry == InitRegistry /\ [][NextRegistry]_vars

\* The change handlers of the two ChatSubscriptionManager versions, run for
\* message rows as they are inserted.
InitHandler ==
  /\ InitChans /\ InitRTSVars /\ InitCSMVars /\ InitUCVars
  /\ InitLog /\ InitEvents /\ InitHooks /\ InitPresenceVars /\ InitFeedVars /\ InitMutationVars /\ InitSoundVars /\ InitCsm2Vars /\ InitPresenceHookVars /\ InitNotifierVars
  /\ storageFull \in BOOLEAN
  /\ topicIsName = TRUE
  /\ impl = "handler"

NextHandler ==
  \/ \E u \in Senders, o \in Outcomes : CSMHandleMessage(u, o)
  \/ \E u \in Senders, o \in Outcomes : CSM2HandleMessage(u, o)
  \/ DebounceFire

SpecHandler == InitHandler /\ [][NextHandler]_vars

\* useUnifiedChat mounted by several components, each with its own channel and
\* handler, all writing to the one notification service.
InitUnifiedChat ==
  /\ InitChans /\ InitRTSVars /\ InitCSMVars /\ InitUCVars
  /\ InitLog /\ InitEvents /\ InitHooks /\ InitPresenceVars /\ InitFeedVars /\ InitMutationVars /\ InitSoundVars /\ InitCsm2Vars /\ InitPresenceHookVars /\ InitNotifierVars
  /\ storageFull = FALSE
  /\ topicIsName = TRUE
  /\ impl = "unified"

NextUnifiedChat ==
  \/ \E h \in Hooks : UHMount(h)
  \/ \E h \in Hooks, conv \in Conversations : UHSetActiveConversation(h, conv)
  \/ \E h \in Hooks : UHUnmount(h)
  \/ \E c \in 1..MaxChannels, s \in Statuses : UHStatus(c, s)
  \/ \E u \in Senders, o \in Outcomes : UHInsert(u, o)

SpecUnifiedChat == InitUnifiedChat /\ [][NextUnifiedChat]_vars

\* The notification service alone, over page loads, with a store that either
\* accepts every write or rejects every write.
InitNotifications ==
  /\ InitChans /\ InitRTSVars /\ InitCSMVars /\ InitUCVars
  /\ InitLog /\ InitEvents /\ InitHooks /\ InitPresenceVars /\ InitFeedVars /\ InitMutationVars /\ InitSoundVars /\ InitCsm2Vars /\ InitPresenceHookVars /\ InitNotifierVars
  /\ storageFull \in BOOLEAN
  /\ topicIsName = TRUE
  /\ impl = "log"

NextNotifications ==
  \/ \E e \in EmitOutcomes : LogAdd(e)
  \/ LogClearAll
  \/ LogReload

SpecNotifications == InitNotifications /\ [][NextNotifications]_vars

\* The notification service with all of its mutators, over a few records.
InitStore ==
  /\ InitChans /\ InitRTSVars /\ InitCSMVars /\ InitUCVars
  /\ InitLog /\ InitEvents /\ InitHooks /\ InitPresenceVars /\ InitFeedVars /\ InitMutationVars /\ InitSoundVars /\ InitCsm2Vars /\ InitPresenceHookVars /\ InitNotifierVars
  /\ storageFull \in BOOLEAN
  /\ topicIsName = TRUE
  /\ impl = "store"

NextStore ==
  \/ \E e \in EmitOutcomes : LogAdd(e)
  \/ \E id \in RecordIds : LogMarkAsRead(id)
  \/ LogMarkAllAsRead
  \/ \E id \in RecordIds : LogRemove(id)
  \/ LogClearAll
  \/ LogReload

SpecStore == InitStore /\ [][NextStore]_vars

\* Clients writing presence rows at any time, and the observer's map.
InitPresence == InitIdle /\ topicIsName = TRUE /\ impl = "presence"

NextPresence ==
  \/ \E u \in Users, st \in PresenceStatuses : PUpdate(u, st)
  \/ \E u \in Users : PDeleteRow(u)
  \/ \E i \in 1..InFlightBound : PDeliver(i)
  \/ PTick

SpecPresence == InitPresence /\ [][NextPresence]_vars

\* One mounted client heartbeating on schedule, and the observer's map.
InitHeartbeat == InitIdle /\ topicIsName = TRUE /\ impl = "heartbeat"

NextHeartbeat ==
  \/ PHeartbeat
  \/ \E i \in 1..InFlightBound : PDeliver(i)
  \/ PTick

SpecHeartbeat == InitHeartbeat /\ [][NextHeartbeat]_vars

\* ------------------------------------------------------------ the claims

\* C1: at most one channel is open for a subscription key at any time.
C1_AtMostOneOpenChannelPerKey ==
  \A k \in Keys : Cardinality(OpenChannels(k)) <= 1

\* C2: while a consumer that acquired the key has not released it, neither
\* another consumer's unsubscribe() nor the cleanup it scheduled closes the
\* channel.
C2_NoTeardownWhileHeld ==
  [][\A u \in Users :
       (/\ (\E v \in Users : CSMUnsubscribe(v)) \/ (\E t \in TimerKinds : CSMTimerFire(t))
        /\ csm.channel # NoChannel
        /\ csm.currentUserId = u
        /\ csmHolders'[u] > 0)
       => chans'[csm.channel] = chans[csm.channel]]_vars

\* C3: a consumer that acquires a key while another consumer's channel for
\* that key is still being set up (SUBSCRIBED not yet reported) creates no
\* second channel.
C3_OneCreationPerKey ==
  [][\A h \in Hooks, k \in Keys :
       (/\ RTSEffect(h, k)
        /\ \E c \in ChannelIds :
             /\ chans[c].key = k
             /\ chans[c].st = "joining"
             /\ chans[c].owner # h
             /\ subscriptionKeyRef[chans[c].owner] = k
             /\ hookEffect[chans[c].owner] = "withUser")
       => Len(chans') = Len(chans)]_vars

\* C4: an acquire that follows, within the teardown delay, the release that
\* left the channel without a consumer reuses that channel: the channel is
\* still the manager's, nothing was unsubscribed and nothing is created.
C4_ReuseWithinDelay ==
  [][\A u \in Users :
       (/\ CSMSubscribe(u, "ok")
        /\ ~csm.isSubscribing
        /\ csmRel.chan # NoChannel
        /\ csmRel.user = u)
       => /\ csm'.channel = csmRel.chan
          /\ chans' = chans
          /\ IsOpen(csmRel.chan)]_vars

\* C5: once the last consumer of a key has released it (no teardown delay in
\* this manager), its channel has been torn down, and exactly once.
C5_TornDownOnceAfterLastRelease ==
  (impl = "ucsm" /\ \A u \in Users : ucHolders[u] = 0)
    => \A c \in ChannelIds : ~IsOpen(c) /\ chans[c].unsubs <= 1

\* C6: the release that drops the consumer count to zero does not close the
\* channel in the same step.
C6_ReleaseDoesNotCloseAtOnce ==
  [][\A h \in Hooks :
       (/\ RTSUnmount(h)
        /\ subscriptionKeyRef[h] # NoKey
        /\ isSubscribedRef[h]
        /\ HasEntry(activeSubscriptions, subscriptionKeyRef[h])
        /\ activeSubscriptions[subscriptionKeyRef[h]].subscribers = 1)
       => LET c == activeSubscriptions[subscriptionKeyRef[h]].channel
          IN  chans'[c] = chans[c]]_vars

\* C7: once every consumer has unmounted and no status callback is pending,
\* no registry entry and no open channel remains.
C7_UnmountReleasesAlways ==
  (/\ impl = "rts"
   /\ \A h \in Hooks : hookEffect[h] = "unmounted"
   /\ \A c \in ChannelIds : chans[c].st \notin {"joining", "closing"})
    => /\ \A k \in Keys : ~HasEntry(activeSubscriptions, k)
       /\ \A c \in ChannelIds : ~IsOpen(c)

\* C8: a status reported by a channel that the manager has already replaced
\* changes none of the manager's fields (connection state, creating flag,
\* channel reference).
C8_StaleStatusDiscarded ==
  [][\A c \in 1..MaxChannels, s \in Statuses :
       (/\ CSMStatus(c, s)
        /\ csm.channel # NoChannel
        /\ csm.channel # c)
       => csm' = csm]_vars

\* C9: after the channel has reported CLOSED, CHANNEL_ERROR or TIMED_OUT, the
\* registry holds no entry for that channel.
C9_ErrorStatusDiscardsEntry ==
  [][\A c \in 1..MaxChannels, s \in ErrorStatuses :
       RTSStatus(c, s)
       => \A k \in Keys : activeSubscriptions'[k].channel # c]_vars

\* C10: a failure while a channel is created or subscribed (the realtime
\* client throws, or an error status is reported) is absorbed by the manager:
\* the subscribe() that failed has returned leaving no channel reference and
\* the manager neither active nor creating; an error status leaves it
\* neither active nor creating; and from every such state a subscribe() for
\* any user is accepted and creates a channel for that user.
C10_FailureLeavesRetryable ==
  /\ csmRet = "failed"
       => csm.channel = NoChannel /\ ~csm.isActive /\ ~csm.isSubscribing
  /\ ucRet = "failed" => ucsm.channel = NoChannel /\ ~ucsm.isActive
  /\ \A s \in ErrorStatuses :
       /\ LET m == CsmOnStatus(csm, s, SameTopic(csm))
          IN  ~m.isActive /\ ~m.isSubscribing
       /\ ~UcsmOnStatus(ucsm, s).isActive
  /\ \A u \in Users :
       /\ (~csm.isActive /\ ~csm.isSubscribing)
            => LET w == SubscribeAccepted(CsmNow, u, "ok")
               IN  /\ Len(w.chans) = Len(chans) + 1
                   /\ w.m.channel = Len(w.chans)
                   /\ w.m.currentUserId = u
                   /\ w.chans[Len(w.chans)] = NewChannel(u, CsmOwner)
       /\ ~ucsm.isActive
            => LET w == UcsmSubscribe(UcsmNow, u, "ok")
               IN  /\ Len(w.chans) = Len(chans) + 1
                   /\ w.m.channel = Len(w.chans)
                   /\ w.m.currentUserId = u
                   /\ w.chans[Len(w.chans)] = NewChannel(u, UcsmOwner)

\* A subscribe() whose channel creation threw has returned: the caller holds
\* the subscription and the manager has no channel and is not creating.
C10_Witness ==
  /\ impl = "csm"
  /\ csmRet = "failed"
  /\ csmHolders["u1"] = 1
  /\ csm.channel = NoChannel
  /\ ~csm.isSubscribing
  /\ Len(chans) > 0

\* C11: an acquire for a key that has a live entry adds exactly one to that
\* entry's consumer count, keeps its channel and creates no channel. For the
\* hook: a consumer that does not hold the key finds the count one higher; a
\* consumer that holds it with others (its effect re-runs: release, then
\* acquire) finds the count as it was. For the manager: subscribe() for the
\* user it is active for is accepted and only counts.
Holds(h, k) ==
  hookEffect[h] = "withUser" /\ subscriptionKeyRef[h] = k /\ isSubscribedRef[h]

C12_KeyChangeReleasesPrevious ==
  [][\A h \in Hooks, k \in Keys :
       LET old == subscriptionKeyRef[h]
       IN  (/\ RTSEffect(h, k)
            /\ hookEffect[h] = "withUser"
            /\ old \notin {NoKey, k}
            /\ \A g \in Hooks \ {h} :
                 ~(hookEffect[g] = "withUser" /\ subscriptionKeyRef[g] = old))
           => \A c \in ChannelIds :
                chans[c].key = old => chans'[c].st \notin {"joining", "joined"}]_vars

\* C13: no consumer count is ever negative, also when a release finds the
\* count already at zero; an entry in the hook's map counts at least one
\* consumer and its channel has not been unsubscribed; the release of the
\* last counted consumer removes the entry and unsubscribes its channel, and
\* the manager's delayed cleanup, run with the count at zero, leaves no
\* channel reference.
C13_CountNeverNegative ==
  /\ csm.subscriberCount >= 0
  /\ Unsubscribe(CsmNow).m.subscriberCount >= 0
  /\ csm.subscriberCount = 0
       => LET w == CleanupTimer(CsmNow)
          IN  /\ w.m.channel = NoChannel
              /\ ~w.m.isActive
              /\ csm.channel # NoChannel => ~(w.chans[csm.channel].st \in {"joining", "joined"})
  /\ \A k \in Keys :
       IF HasEntry(activeSubscriptions, k)
       THEN /\ activeSubscriptions[k].subscribers >= 1
            /\ chans[activeSubscriptions[k].channel].st \notin {"closing", "closed"}
       ELSE activeSubscriptions[k] = NoEntry
  /\ \A h \in Hooks :
       LET k == subscriptionKeyRef[h]
           r == RTSCleanupResult(h, activeSubscriptions, subscriptionKeyRef,
                                 isSubscribedRef, chans)
       IN  /\ \A j \in Keys : r.map[j].subscribers >= 0
           /\ (k # NoKey /\ isSubscribedRef[h] /\ HasEntry(activeSubscriptions, k)
                 /\ activeSubscriptions[k].subscribers = 1)
                => /\ r.map[k] = NoEntry
                   /\ r.chans[activeSubscriptions[k].channel].st \in {"closing", "closed"}

\* unsubscribe() has just run with the count already at zero: the only
\* subscribe() left it at zero and its consumer has released.
C13_Witness ==
  /\ impl = "csm"
  /\ csm.subscriberCount = 0
  /\ csm.channel # NoChannel
  /\ timers.latest = CleanupDelay
  /\ HeldTotal = 0

C15_ConnectedOnlyWhenSubscribed ==
  ucView.isConnected
    => ucsm.channel # NoChannel /\ chans[ucsm.channel].st = "joined"

\* C16: a status callback of a channel of key k changes nothing that belongs
\* to another key: neither the other keys' entries (channel, consumer count)
\* nor the subscribed flag of a consumer that is on another key.
C16_StatusLeavesOtherKeys ==
  [][\A c \in 1..MaxChannels, s \in Statuses :
       RTSStatus(c, s)
         => /\ \A k \in Keys \ {chans[c].key} :
                 activeSubscriptions'[k] = activeSubscriptions[k]
            /\ \A h \in Hooks :
                 (hookEffect[h] = "withUser"
                   /\ subscriptionKeyRef[h] \notin {NoKey, chans[c].key})
                   => isSubscribedRef'[h] = isSubscribedRef[h]]_vars

\* C17: every message-insert event given to the change handler ends with the
\* chat-user list and the sender's conversation invalidated: once no debounce
\* timer is pending, no cache key of a handled event is still owed, whatever
\* the profile lookup returned and whatever events came before or after.
C17_EveryEventInvalidates == debounceTimeout = NoSender => owed = {}

\* C18: a failure of sound playback or of notification emission while an event
\* is handled does not prevent its invalidation: whenever the first manager's
\* handler (or a hook's handler that did not skip the event) found the sender's
\* profile and has a query client, the chat-user list and the sender's
\* conversation are invalidated by that run, whatever the sound and the
\* emission steps did.
C18_EmissionFailureKeepsInvalidation ==
  (/\ last.handler \in {"csm", "hook"}
   /\ last.lookup = "row"
   /\ last.client
   /\ last.skipped = 0)
  => CacheKeys(last.sender) \subseteq last.invalidated

\* C19: while the recipient is subscribed, one inserted message appends
\* exactly one notification record, whatever number of consumers are mounted:
\* when an insert reaches at least one joined channel, the sender's profile is
\* found, nothing throws and no handler skips the event, the log has gained
\* exactly one record.
C19_OneInsertOneRecord ==
  (/\ last.handler = "hook"
   /\ last.channels >= 1
   /\ last.lookup = "row"
   /\ last.emit \in {"ok", "systemThrows"}
   /\ last.skipped = 0)
  => last.appended = 1

\* C20: the notification log never holds more than 100 entries, in memory or
\* as loaded from the store; it is ordered newest first; and adding a record to
\* a log of 100 leaves 100 records: the new one first, then the 99 newest of
\* the old ones in their order, the oldest gone.
C20_LogCapped ==
  /\ Len(notifications) <= MaxNotifications
  /\ Len(LoadFromStorage(storage)) <= MaxNotifications
  /\ \A i, j \in 1..Len(notifications) :
       i < j => notifications[i].id > notifications[j].id
  /\ LET new == AddNotification(Service, nextId, storageFull, "ok").svc.notifications
     IN  /\ new[1].id = nextId
         /\ Len(notifications) < MaxNotifications
              => new = <<new[1]>> \o notifications
         /\ Len(notifications) = MaxNotifications
              => /\ Len(new) = MaxNotifications
                 /\ \A i \in 2..MaxNotifications : new[i] = notifications[i - 1]
                 /\ \A i \in 1..Len(new) :
                      new[i] # notifications[MaxNotifications]

\* 101 records were added: the log holds records 101 down to 2.
C20_Witness ==
  /\ impl = "log"
  /\ nextId = MaxNotifications + 2
  /\ Len(notifications) = MaxNotifications
  /\ notifications[1].id = MaxNotifications + 1
  /\ notifications[MaxNotifications].id = 2
  /\ storage = notifications

C22_NoSystemNotificationForActive ==
  [][(/\ impl = "unified"
      /\ inserted' = inserted + 1
      /\ \E h \in Hooks : unified[h].life = "mounted"
      /\ \A h \in Hooks : unified[h].life = "mounted"
                            => unified[h].activeConversation = last'.sender)
     => SystemNotifications(last') = 0]_vars

\* C23: getUserStatus(u) is offline when the map has no row for u and when
\* u's last_seen is more than 90 s old, whatever status the row stores;
\* otherwise it is the stored status.
C23_StaleIsOffline ==
  impl = "presence" =>
    \A u \in Users :
      LET row == userStatuses[u]
      IN  /\ row = NoRow => GetUserStatus(userStatuses, u, clock) = "offline"
          /\ (row # NoRow /\ clock - row.last_seen > 90)
               => GetUserStatus(userStatuses, u, clock) = "offline"
          /\ (row # NoRow /\ clock - row.last_seen <= 90)
               => GetUserStatus(userStatuses, u, clock) = row.status

\* u1's row says typing and is 135 s old; u2's says away and is exactly 90 s old.
C23_Witness ==
  /\ impl = "presence"
  /\ userStatuses["u1"].status = "typing"
  /\ clock - userStatuses["u1"].last_seen = 135
  /\ userStatuses["u2"].status = "away"
  /\ clock - userStatuses["u2"].last_seen = 90

C25_ChangeInvalidatesMatching ==
  (impl = "feed" /\ lastChange.channel # NoChannel) =>
    /\ lastChange.given =>
         (lastChange.calls = 1 /\ lastChange.invoked \in Hooks)
    /\ ~lastChange.given => lastChange.calls = 0
    /\ lastChange.table = Posts =>
         lastChange.invalidated = {Posts, UserPosts, Comments, Reactions}
    /\ lastChange.table = Messages =>
         lastChange.invalidated =
           {Posts, UserPosts, Comments, Reactions, Messages, ChatMessages}
    /\ lastChange.table \in {Posts, Messages}

C25_Witness ==
  /\ impl = "feed"
  /\ lastChange.channel # NoChannel
  /\ lastChange.given /\ lastChange.calls = 1
  /\ lastChange.table = Messages
  /\ Messages \in lastChange.invalidated
  /\ ChatMessages \in lastChange.invalidated
  /\ ConversationsKey \notin lastChange.invalidated
  /\ \E k \in Keys : activeSubscriptions[k].subscribers = 2

\* C26: a mutation (send, mark read, clear, delete) that failed has shown the
\* destructive toast, and its mutationFn ran once.
C26_FailureToasted ==
  (impl = "mutation" /\ mutation.outcome \in {"error", "noUser"}) =>
    (mutation.toast = "destructive" /\ mutation.attempts = 1)

\* C27: the presence map mirrors the delivered change events: a step that
\* hands an event for user u to the handler leaves no row for u when the event
\* is a DELETE (getUserStatus(u) is then offline), leaves exactly the event's
\* row for u when it is an INSERT or UPDATE, and leaves every other user's row
\* as it was.
C27_MapMirrorsEvents ==
  [][(impl = "presence" /\ Len(inflight') = Len(inflight) - 1) =>
       \E i \in 1..Len(inflight) :
         LET ev == inflight[i]
         IN  /\ inflight' = Without(inflight, i)
             /\ ev.kind = "DELETE" =>
                  /\ userStatuses'[ev.user] = NoRow
                  /\ GetUserStatus(userStatuses', ev.user, clock') = "offline"
             /\ ev.kind \in {"INSERT", "UPDATE"} =>
                  userStatuses'[ev.user] = ev.row
             /\ \A u \in Users \ {ev.user} : userStatuses'[u] = userStatuses[u]
    ]_vars

C27_Witness ==
  /\ impl = "presence"
  /\ presenceLog.sends = 2 /\ presenceLog.arrived /\ ~presenceLog.outOfOrder
  /\ inflight = <<>>
  /\ \A u \in Users : ~presenceTable[u] /\ userStatuses[u] = NoRow

\* C28: play() never propagates an exception, whether the primary playback,
\* the fallback or both fail; and when the service is disabled or has no audio
\* it attempts no playback and nothing is heard.
C28_PlayNeverThrows ==
  (impl = "sound" /\ soundService.last.called) =>
    /\ ~soundService.last.threw
    /\ (soundService.disabledAt \/ soundService.silentAt) =>
         (soundService.last.attempts = 0 /\ soundService.last.heard = "none")

C28_Witness ==
  /\ impl = "sound"
  /\ soundService.last.called /\ ~soundService.last.threw
  /\ soundService.last.attempts = 2 /\ soundService.last.heard = "none"
  /\ soundService.svc.audio = "beep"
  /\ ~soundService.disabledAt /\ ~soundService.silentAt

\* C29: no open channel is ever orphaned: a step after which the hook's map
\* or the manager no longer refers to a channel they referred to before (the
\* entry deleted or overwritten, the field set to null) leaves that channel
\* unsubscribed, not joining or joined.
C29_NoOpenChannelOrphaned ==
  [][\A c \in ChannelIds :
       LET before == \/ impl = "rts" /\ \E k \in Keys : activeSubscriptions[k].channel = c
                     \/ impl = "csm" /\ csm.channel = c
           after == \/ impl = "rts" /\ \E k \in Keys : activeSubscriptions'[k].channel = c
                    \/ impl = "csm" /\ csm'.channel = c
       IN  (before /\ ~after) => chans'[c].st \notin {"joining", "joined"}
    ]_vars

\* C30: a message delivered on a channel that ChatSubscriptionManager had torn
\* down by the time its sender lookup completed appends no notification, plays
\* no sound and invalidates no cache.
C30_NoEffectAfterTeardown ==
  (impl = "pending" /\ pendingLookup.state = "done" /\ pendingLookup.tornDown) =>
    /\ pendingLookup.appended = 0
    /\ ~pendingLookup.played
    /\ pendingLookup.invalidated = {}

\* C31: in the manager that defers channel creation by 100 ms, a subscribe()
\* that returned true is followed by the creation of a channel for that user
\* unless a cleanup or a later subscribe() intervenes; in particular a message
\* handler that completes while the creation is pending leaves the pending
\* creation in place.
C31_HandlerKeepsPendingCreation ==
  [][(impl = "csm2"
      /\ csm2.debounceTimeout.kind = "create"
      /\ pendingLookup.state = "pending"
      /\ pendingLookup'.state = "done")
     => csm2'.debounceTimeout = csm2.debounceTimeout]_vars

\* C37: a ChatSubscriptionManager.subscribe() that returns false, because a
\* creation is in progress (first version) or because less than 1000 ms have
\* passed since the previous accepted subscribe (second version), leaves the
\* subscriber count, the channel, the current user, the connection flags and
\* the pending timers as they were.
C37_RejectedSubscribeChangesNothing ==
  [][/\ (impl = "csm" /\ csmRet' = "rejected")
          => UNCHANGED <<csm, chans, timers, csmHolders>>
     /\ (impl = "csm2" /\ csm2'.ret = "false")
          => /\ [csm2' EXCEPT !.ret = csm2.ret] = csm2
             /\ UNCHANGED chans]_vars

\* A subscribe() was turned away by the throttle while the manager held a
\* live channel, a consumer and a running cleanup timer.
C37_Witness ==
  /\ impl = "csm2"
  /\ csm2.ret = "false"
  /\ csm2.channel # NoChannel
  /\ csm2.isActive
  /\ csm2.cleanupTimeout > 0
  /\ csm2.subscriberCount = 0

\* C32: for each change event on a key, the onDataChange of every consumer
\* mounted for that key is invoked, the consumers that reused the entry
\* included, and the callback of no consumer that has unmounted is invoked.
C32_MountedConsumersNotified ==
  [][(impl = "feed" /\ lastChange' # lastChange /\ lastChange'.given)
     => {h \in Hooks : Holds(h, chans[lastChange'.channel].key)}
          = {lastChange'.invoked}]_vars

\* C33: isUserTyping(u) is never true for a user whose last_seen is older
\* than the staleness threshold: isUserTyping(u) implies that getUserStatus(u)
\* is typing.
C33_TypingImpliesStatusTyping ==
  impl = "presence" =>
    \A u \in Users :
      IsUserTyping(userStatuses, u)
        => GetUserStatus(userStatuses, u, clock) = "typing"

\* C34: once the presence hook has unmounted, no further heartbeat is sent,
\* and the last status written to the table for its user is offline, also
\* when a heartbeat or a focus/blur upsert issued before the unmount was still
\* in flight.
C34_UnmountedEndsOffline ==
  (impl = "unmount" /\ presenceHook.life = "unmounted")
    => /\ presenceHook.lateBeats = 0
       /\ presenceHook.requests = <<>> => presenceHook.row = "offline"

\* C35: handling one message-insert event plays the notification sound at
\* most once, and plays none when sound has been disabled with
\* unifiedNotificationService.setSoundEnabled(false).
C35_OneSoundPerMessage ==
  (impl = "chime" /\ lastSounds.handled)
    => /\ lastSounds.enhanced + lastSounds.unified <= 1
       /\ ~lastSounds.soundEnabled
            => lastSounds.enhanced + lastSounds.unified = 0

\* C36: listeners are notified exactly when the log changes: subscribe()
\* calls the new listener once at once; an operation that changes the log
\* calls each subscribed listener once; an operation that changes nothing
\* (markAsRead of an unknown or read id, markAllAsRead with nothing unread,
\* removeNotification of an unknown id, clearAll on an empty log) calls no
\* listener and writes nothing; a listener that unsubscribed is not called.
C36_ListenersCalledOnChange ==
  impl = "listeners" =>
    /\ lastCall.op = "subscribe"
         => lastCall.calls = [NoCalls EXCEPT ![lastCall.who] = 1]
    /\ (lastCall.op \in Mutators /\ lastCall.changed)
         => \A l \in Listeners :
              lastCall.calls[l] = IF l \in lastCall.subscribed THEN 1 ELSE 0
    /\ (lastCall.op \in Mutators /\ ~lastCall.changed)
         => lastCall.calls = NoCalls /\ ~lastCall.wrote
    /\ lastCall.op = "unsubscribe" => lastCall.calls = NoCalls

====
